---------------------------- MODULE Spec2Model ----------------------------
(***************************************************************************)
(* Review consolidation (merge_reviews.py) and geospatial sentiment        *)
(* aggregation (MappingSentiments/SentimentSummary_ML.py).                 *)
(*                                                                         *)
(* A Python str is a sequence of one-character strings.  A cell of a       *)
(* DataFrame (a value that may be None, NaN or a str) is a record          *)
(* [t |-> "none" | "nan" | "str", v |-> <<characters>>].                   *)
(***************************************************************************)
EXTENDS Integers, Sequences, FiniteSets, TLC

VARIABLES
    \* ---- normalize_text applied to a cell, then to its own output
    n_pc, text, norm, renorm,
    \* ---- merge_reviews.dedupe_across_locations
    pc,          \* position in merge_reviews.main / dedupe_across_locations
    df,          \* the frame dedupe_across_locations works on (sequence of rows)
    threshold,   \* similarity_threshold, a rational [num, den]
    idx,         \* the row df.iterrows() yields next
    groups,      \* list of [rep, rows]
    reps,        \* representative normalized comment of each group
    grouped,     \* out_rows, one per group
    \* ---- merge_reviews.main
    fs,          \* the locations folder: [exists, folders]
    args,        \* parsed command line: [group, threshold]
    merged,      \* the merged frame
    files,       \* output files written so far: set of [name, rows]
    printed,     \* diagnostics printed so far
    \* ---- MappingSentiments/SentimentSummary_ML.py
    s_pc,               \* position in the script
    reviews,            \* df: sequence of [comment, source_location]
    sentiment,          \* df["sentiment"], row by row
    keywords,           \* df["keywords"]
    pos_kw,             \* df["pos_kw"]
    neg_kw,             \* df["neg_kw"]
    sent_oracle,        \* what sentiment_analyzer answered, by submitted text
    kw_oracle,          \* what kw_model.extract_keywords answered, by text
    pending,            \* locations the grouped loop has still to visit
    location,           \* the loop's current location
    counts,             \* [pos, neg, neu] of the current location
    all_comments,       \* the current location's comment blob
    comment_chunks,     \* its chunks
    ci,                 \* the chunk the first-level loop handles next
    initial_summaries,  \* outputs of the chunks handled so far
    combined_summaries, \* their join
    summary,            \* the current location's summary
    summarizer_calls,   \* the summarizer calls made for the current location
    features,           \* features built so far
    geojson,            \* the written FeatureCollection (<<>> until written)
    \* ---- one call of classify_sentiment, extract_keywords or classify_keywords
    t_pc,               \* "call", then "returned" or "raised"
    t_arg,              \* [fn, x]: the function called and its argument
    t_ret,              \* what it returned
    t_calls             \* the oracle calls it made: sequence of [input, answer]

normVars == <<n_pc, text, norm, renorm>>

groupVars == <<df, threshold, idx, groups, reps, grouped>>

mainVars == <<fs, args, merged, files, printed>>

tagVars == <<reviews, sentiment, keywords, pos_kw, neg_kw, sent_oracle, kw_oracle>>

locVars ==
    <<location, counts, all_comments, comment_chunks, ci, initial_summaries,
      combined_summaries, summary, summarizer_calls>>

scriptVars == <<s_pc, tagVars, pending, locVars, features, geojson>>

callVars == <<t_pc, t_arg, t_ret, t_calls>>

vars == <<normVars, pc, groupVars, mainVars, scriptVars, callVars>>

\* what the actions of merge_reviews.py leave alone, and what normalize_text alone does
notMerge == <<normVars, scriptVars, callVars>>

notNorm == <<pc, groupVars, mainVars, scriptVars, callVars>>

notScript == <<normVars, pc, groupVars, mainVars, callVars>>

notCall == <<normVars, pc, groupVars, mainVars, scriptVars>>

(***************************************************************************)
(* Bounds                                                                  *)
(***************************************************************************)
MaxTextLen == 5

MaxGroupRows == 4

MaxFileRows == 3

MaxScriptRows == 2

MaxVerdictRows == 8

MaxKeywordRows == 2

MaxSummaryRows == 2

MaxKeywordListLen == 3

(***************************************************************************)
(* Python values and str primitives                                        *)
(***************************************************************************)
None == [t |-> "none", v |-> <<>>]
NaN == [t |-> "nan", v |-> <<>>]
Str(s) == [t |-> "str", v |-> s]

\* str(x): 'None' is never reached in normalize_text; NaN prints as 'nan'
PyStr(x) ==
    CASE x.t = "str" -> x.v
      [] x.t = "nan" -> <<"n", "a", "n">>
      [] OTHER -> <<"N", "o", "n", "e">>

LowerLetters ==
    {"a", "b", "c", "d", "e", "f", "g", "h", "i", "j", "k", "l", "m",
     "n", "o", "p", "q", "r", "s", "t", "u", "v", "w", "x", "y", "z"}

Digits == {"0", "1", "2", "3", "4", "5", "6", "7", "8", "9"}

\* the characters the class \s matches
Whitespace == {" ", "\t", "\n"}

IsSpace(c) == c \in Whitespace

UpperLetters ==
    <<"A", "B", "C", "D", "E", "F", "G", "H", "I", "J", "K", "L", "M",
      "N", "O", "P", "Q", "R", "S", "T", "U", "V", "W", "X", "Y", "Z">>

LowerOfUpper ==
    <<"a", "b", "c", "d", "e", "f", "g", "h", "i", "j", "k", "l", "m",
      "n", "o", "p", "q", "r", "s", "t", "u", "v", "w", "x", "y", "z">>

LowerChar(c) ==
    IF \E i \in 1..Len(UpperLetters) : UpperLetters[i] = c
    THEN LowerOfUpper[CHOOSE i \in 1..Len(UpperLetters) : UpperLetters[i] = c]
    ELSE c

\* s.lower()
Lower(s) == [i \in 1..Len(s) |-> LowerChar(s[i])]

\* re.sub(r"\s+", " ", s): every maximal run of whitespace becomes one space
RECURSIVE CollapseWhitespace(_)
CollapseWhitespace(s) ==
    IF s = <<>> THEN <<>>
    ELSE IF IsSpace(Head(s))
         THEN IF Len(s) > 1 /\ IsSpace(s[2])
              THEN CollapseWhitespace(Tail(s))
              ELSE <<" ">> \o CollapseWhitespace(Tail(s))
         ELSE <<Head(s)>> \o CollapseWhitespace(Tail(s))

KeptByNormalize(c) == c \in Digits \/ c \in LowerLetters \/ IsSpace(c)

\* re.sub(r"[^0-9a-z\s]", "", s)
StripNonAlnum(s) == SelectSeq(s, KeptByNormalize)

\* s.lstrip(): s from its first character that is not whitespace
LStrip(s) ==
    IF \A i \in 1..Len(s) : IsSpace(s[i]) THEN <<>>
    ELSE SubSeq(s,
                CHOOSE i \in 1..Len(s) :
                    ~IsSpace(s[i]) /\ \A j \in 1..(i - 1) : IsSpace(s[j]),
                Len(s))

\* s.rstrip(): s up to its last character that is not whitespace
RStrip(s) ==
    IF \A i \in 1..Len(s) : IsSpace(s[i]) THEN <<>>
    ELSE SubSeq(s, 1,
                CHOOSE i \in 1..Len(s) :
                    ~IsSpace(s[i]) /\ \A j \in (i + 1)..Len(s) : IsSpace(s[j]))

\* s.strip()
Strip(s) == RStrip(LStrip(s))

\* merge_reviews.normalize_text
normalize_text(x) ==
    IF x.t = "none" THEN <<>>
    ELSE Strip(StripNonAlnum(CollapseWhitespace(Lower(PyStr(x)))))

(***************************************************************************)
(* normalize_text on a cell, and on its own output                         *)
(***************************************************************************)
TextChars == {"a", "B", "!", " ", "\t"}

RECURSIVE SeqsUpTo(_, _)
SeqsUpTo(S, n) ==
    IF n = 0 THEN {<<>>}
    ELSE LET shorter == SeqsUpTo(S, n - 1)
         IN  shorter \cup {Append(s, c) : s \in {q \in shorter : Len(q) = n - 1}, c \in S}

Cells == {None, NaN} \cup {Str(s) : s \in SeqsUpTo(TextChars, MaxTextLen)}

NormIdle ==
    /\ n_pc = "idle"
    /\ text = None
    /\ norm = <<>>
    /\ renorm = <<>>

GroupIdle ==
    /\ df = <<>>
    /\ threshold = [num |-> 17, den |-> 20]
    /\ idx = 0
    /\ groups = <<>>
    /\ reps = <<>>
    /\ grouped = <<>>

MainIdle ==
    /\ fs = [exists |-> FALSE, folders |-> <<>>]
    /\ args = [group |-> FALSE, threshold |-> [num |-> 17, den |-> 20]]
    /\ merged = <<>>
    /\ files = {}
    /\ printed = <<>>

LocIdle ==
    /\ location = <<>>
    /\ counts = [pos |-> 0, neg |-> 0, neu |-> 0]
    /\ all_comments = <<>>
    /\ comment_chunks = <<>>
    /\ ci = 0
    /\ initial_summaries = <<>>
    /\ combined_summaries = <<>>
    /\ summary = <<>>
    /\ summarizer_calls = <<>>

CallIdle ==
    /\ t_pc = "idle"
    /\ t_arg = [fn |-> "none", x |-> None]
    /\ t_ret = <<>>
    /\ t_calls = <<>>

ScriptIdle ==
    /\ s_pc = "idle"
    /\ reviews = <<>>
    /\ sentiment = <<>>
    /\ keywords = <<>>
    /\ pos_kw = <<>>
    /\ neg_kw = <<>>
    /\ sent_oracle = <<>>
    /\ kw_oracle = <<>>
    /\ pending = <<>>
    /\ LocIdle
    /\ features = <<>>
    /\ geojson = <<>>

NormInit ==
    /\ n_pc = "input"
    /\ text \in Cells
    /\ norm = <<>>
    /\ renorm = <<>>
    /\ pc = "idle"
    /\ GroupIdle
    /\ MainIdle
    /\ ScriptIdle
    /\ CallIdle

Normalize ==
    /\ n_pc = "input"
    /\ norm' = normalize_text(text)
    /\ n_pc' = "normalized"
    /\ UNCHANGED <<text, renorm>>
    /\ UNCHANGED notNorm

Renormalize ==
    /\ n_pc = "normalized"
    /\ renorm' = normalize_text(Str(norm))
    /\ n_pc' = "renormalized"
    /\ UNCHANGED <<text, norm>>
    /\ UNCHANGED notNorm

NormNext == Normalize \/ Renormalize

SpecNormalize == NormInit /\ [][NormNext]_vars

\* C1: normalize_text is idempotent: normalizing the output of normalize_text
\* gives that output back, for every cell (None and the empty str included).
C1_NormalizeIdempotent == n_pc = "renormalized" => renorm = norm

(***************************************************************************)
(* str ordering, float() and difflib, as merge_reviews.py uses them        *)
(***************************************************************************)
\* the characters of the model in code point order
CodePointOrder ==
    <<"\t", "\n", " ", "!", "-", ".",
      "0", "1", "2", "3", "4", "5", "6", "7", "8", "9">>
    \o UpperLetters \o LowerOfUpper

Ord(c) == CHOOSE i \in 1..Len(CodePointOrder) : CodePointOrder[i] = c

\* a < b on str
RECURSIVE StrLess(_, _)
StrLess(a, b) ==
    IF b = <<>> THEN FALSE
    ELSE IF a = <<>> THEN TRUE
    ELSE IF Head(a) = Head(b) THEN StrLess(Tail(a), Tail(b))
    ELSE Ord(Head(a)) < Ord(Head(b))

\* sorted(list(S)) for a set S of str
RECURSIVE SortedStrs(_)
SortedStrs(S) ==
    IF S = {} THEN <<>>
    ELSE LET least == CHOOSE x \in S : \A y \in S : y = x \/ StrLess(x, y)
         IN  <<least>> \o SortedStrs(S \ {least})

\* a float: a rational n/d, nan, or (k = "none") Python's None in its place
Float(n, d) == [k |-> "num", n |-> n, d |-> d]
FloatNaN == [k |-> "nan", n |-> 0, d |-> 1]
FloatNone == [k |-> "none", n |-> 0, d |-> 1]
\* float(...) raising ValueError / TypeError / IndexError
Raised == [k |-> "raise", n |-> 0, d |-> 1]

DigitSeq == <<"0", "1", "2", "3", "4", "5", "6", "7", "8", "9">>

DigitVal(c) == (CHOOSE i \in 1..10 : DigitSeq[i] = c) - 1

RECURSIVE IntVal(_)
IntVal(s) ==
    IF s = <<>> THEN 0
    ELSE IntVal(SubSeq(s, 1, Len(s) - 1)) * 10 + DigitVal(s[Len(s)])

RECURSIVE Pow10(_)
Pow10(n) == IF n = 0 THEN 1 ELSE 10 * Pow10(n - 1)

AllDigits(s) == \A i \in 1..Len(s) : s[i] \in Digits

\* float(s) for a str s: surrounding whitespace is ignored; digits with at most
\* one decimal point, or 'nan'; anything else raises ValueError
ParseFloat(s) ==
    LET t == Strip(s)
        dots == {i \in 1..Len(t) : t[i] = "."}
    IN  IF Lower(t) = <<"n", "a", "n">> THEN FloatNaN
        ELSE IF dots = {}
             THEN IF t # <<>> /\ AllDigits(t) THEN Float(IntVal(t), 1) ELSE Raised
        ELSE IF Cardinality(dots) = 1
             THEN LET p == CHOOSE i \in dots : TRUE
                      ip == SubSeq(t, 1, p - 1)
                      fp == SubSeq(t, p + 1, Len(t))
                  IN  IF Len(t) > 1 /\ AllDigits(ip) /\ AllDigits(fp)
                      THEN Float(IntVal(ip \o fp), Pow10(Len(fp)))
                      ELSE Raised
        ELSE Raised

\* float(x) for a cell
PyFloat(x) ==
    CASE x.t = "nan" -> FloatNaN
      [] x.t = "str" -> ParseFloat(x.v)
      [] OTHER -> Raised

\* str.split()[0]: the first whitespace-delimited token (IndexError if none)
RECURSIVE UntilSpace(_)
UntilSpace(s) ==
    IF s = <<>> \/ IsSpace(Head(s)) THEN <<>> ELSE <<Head(s)>> \o UntilSpace(Tail(s))

FirstToken(s) == UntilSpace(LStrip(s))

\* merge_reviews.rating_to_float
rating_to_float(x) ==
    IF PyFloat(x).k # "raise" THEN PyFloat(x)
    ELSE IF FirstToken(PyStr(x)) = <<>> THEN FloatNone
    ELSE IF ParseFloat(FirstToken(PyStr(x))).k # "raise"
         THEN ParseFloat(FirstToken(PyStr(x)))
    ELSE FloatNone

\* length of the common run a[i..], b[j..]
RECURSIVE CommonRun(_, _, _, _)
CommonRun(a, b, i, j) ==
    IF i > Len(a) \/ j > Len(b) \/ a[i] # b[j] THEN 0
    ELSE 1 + CommonRun(a, b, i + 1, j + 1)

\* SequenceMatcher.find_longest_match over all of a and b (no junk: isjunk is
\* None and b is shorter than the 200 elements at which autojunk starts):
\* <<i, j, k>> with a[i..i+k-1] = b[j..j+k-1], k maximal, then i minimal, then
\* j minimal
find_longest_match(a, b) ==
    LET cand == {<<i, j, CommonRun(a, b, i, j)>> : i \in 1..Len(a), j \in 1..Len(b)}
        Before(c, d) ==
            \/ c[3] > d[3]
            \/ c[3] = d[3] /\ c[1] < d[1]
            \/ c[3] = d[3] /\ c[1] = d[1] /\ c[2] <= d[2]
    IN  CHOOSE c \in cand : \A d \in cand : Before(c, d)

\* sum of the sizes of SequenceMatcher.get_matching_blocks()
RECURSIVE MatchedSize(_, _)
MatchedSize(a, b) ==
    IF a = <<>> \/ b = <<>> THEN 0
    ELSE LET m == find_longest_match(a, b)
         IN  IF m[3] = 0 THEN 0
             ELSE m[3]
                  + MatchedSize(SubSeq(a, 1, m[1] - 1), SubSeq(b, 1, m[2] - 1))
                  + MatchedSize(SubSeq(a, m[1] + m[3], Len(a)),
                                SubSeq(b, m[2] + m[3], Len(b)))

\* the comparison of line 144 turned around: score <= similarity_threshold
ScoreAtMost(a, b, t) ==
    IF Len(a) + Len(b) = 0 THEN t.den <= t.num
    ELSE 2 * MatchedSize(a, b) * t.den <= t.num * (Len(a) + Len(b))

\* difflib.SequenceMatcher(None, a, b).ratio() >= t, with ratio() = 2.0 * M / T
\* (1.0 when T = 0) and t the rational t.num / t.den
ScoreAtLeast(a, b, t) ==
    IF Len(a) + Len(b) = 0 THEN t.den >= t.num
    ELSE 2 * MatchedSize(a, b) * t.den >= t.num * (Len(a) + Len(b))

(***************************************************************************)
(* merge_reviews.dedupe_across_locations                                   *)
(***************************************************************************)
\* Series.fillna('').astype(str)
FillStr(x) == IF x.t = "str" THEN x.v ELSE <<>>

\* the column df['rating'].apply(rating_to_float): pandas stores the results
\* as float64, None becoming NaN, as soon as one of them is a float
RatingColumn(rows) ==
    LET raw == [i \in 1..Len(rows) |-> rating_to_float(rows[i].rating)]
        anyFloat == \E i \in 1..Len(rows) : raw[i].k # "none"
    IN  [i \in 1..Len(rows) |->
            IF raw[i].k = "none" /\ anyFloat THEN FloatNaN ELSE raw[i]]

\* lines 127-131: the working copy with name, comment, norm_comment, rating_f
PrepareFrame(rows) ==
    [i \in 1..Len(rows) |->
        [name |-> Strip(FillStr(rows[i].name)),
         comment |-> FillStr(rows[i].comment),
         rating |-> rows[i].rating,
         date |-> rows[i].date,
         source_location |-> rows[i].source_location,
         norm_comment |-> normalize_text(Str(FillStr(rows[i].comment))),
         rating_f |-> RatingColumn(rows)[i]]]

\* a search that takes the last group that qualifies
MatchingGroupLast(R, nc, t) ==
    LET hits == {gi \in 1..Len(R) : R[gi] # <<>> /\ ScoreAtLeast(R[gi], nc, t)}
    IN  IF hits = {} THEN 0 ELSE CHOOSE gi \in hits : \A h \in hits : gi >= h

\* a search that takes the first group with a representative, whatever its score
MatchingGroupAny(R, nc, t) ==
    LET hits == {gi \in 1..Len(R) : R[gi] # <<>>}
    IN  IF hits = {} THEN 0 ELSE CHOOSE gi \in hits : \A h \in hits : gi <= h

\* a search that also compares against empty representatives
MatchingGroupWithEmpty(R, nc, t) ==
    LET hits == {gi \in 1..Len(R) : ScoreAtLeast(R[gi], nc, t)}
    IN  IF hits = {} THEN 0 ELSE CHOOSE gi \in hits : \A h \in hits : gi <= h

\* lines 140-150: the first group, in creation order, whose representative is
\* non-empty and scores at least the threshold against nc; 0 if there is none
MatchingGroup(R, nc, t) ==
    LET hits == {gi \in 1..Len(R) : R[gi] # <<>> /\ ScoreAtLeast(R[gi], nc, t)}
    IN  IF hits = {} THEN 0 ELSE CHOOSE gi \in hits : \A h \in hits : gi <= h

\* an insertion that also replaces a representative of the same length
InsertRowReplaceOnTie(st, row, t) ==
    LET nc == row.norm_comment
        gi == MatchingGroup(st.reps, nc, t)
    IN  IF gi # 0
        THEN [groups |-> [st.groups EXCEPT ![gi].rows = Append(@, row)],
              reps |-> IF Len(nc) >= Len(st.reps[gi])
                       THEN [st.reps EXCEPT ![gi] = nc]
                       ELSE st.reps]
        ELSE [groups |-> Append(st.groups, [rep |-> nc, rows |-> <<row>>]),
              reps |-> Append(st.reps, nc)]

\* an insertion that opens a group for the row even when it has joined one
InsertRowJoinAndOpen(st, row, t) ==
    LET nc == row.norm_comment
        gi == MatchingGroup(st.reps, nc, t)
        joined == IF gi # 0
                  THEN [st.groups EXCEPT ![gi].rows = Append(@, row)]
                  ELSE st.groups
        kept == IF gi # 0 /\ Len(nc) > Len(st.reps[gi])
                THEN [st.reps EXCEPT ![gi] = nc]
                ELSE st.reps
    IN  [groups |-> Append(joined, [rep |-> nc, rows |-> <<row>>]),
         reps |-> Append(kept, nc)]

\* lines 136-154, one iteration: the row joins the matching group (whose
\* representative becomes nc when nc is strictly longer) or opens a new group
InsertRow(st, row, t) ==
    LET nc == row.norm_comment
        gi == MatchingGroup(st.reps, nc, t)
    IN  IF gi # 0
        THEN [groups |-> [st.groups EXCEPT ![gi].rows = Append(@, row)],
              reps |-> IF Len(nc) > Len(st.reps[gi])
                       THEN [st.reps EXCEPT ![gi] = nc]
                       ELSE st.reps]
        ELSE [groups |-> Append(st.groups, [rep |-> nc, rows |-> <<row>>]),
              reps |-> Append(st.reps, nc)]

\* the whole loop of lines 136-154 over the first n rows
RECURSIVE GroupRows(_, _, _)
GroupRows(rows, n, t) ==
    IF n = 0 THEN [groups |-> <<>>, reps |-> <<>>]
    ELSE InsertRow(GroupRows(rows, n - 1, t), rows[n], t)

\* max(comments, key=len): the first comment of maximal length
LongestComment(rows) ==
    LET i == CHOOSE i \in 1..Len(rows) :
                /\ \A j \in 1..Len(rows) : Len(rows[j].comment) <= Len(rows[i].comment)
                /\ \A j \in 1..(i - 1) : Len(rows[j].comment) < Len(rows[i].comment)
    IN  rows[i].comment

\* sum(ratings) / len(ratings) over floats n/d and nan
RECURSIVE SumFloats(_)
SumFloats(xs) ==
    IF xs = <<>> THEN Float(0, 1)
    ELSE LET h == Head(xs)
             r == SumFloats(Tail(xs))
         IN  IF h.k = "nan" \/ r.k = "nan" THEN FloatNaN
             ELSE Float(h.n * r.d + r.n * h.d, h.d * r.d)

Mean(xs) ==
    IF SumFloats(xs).k = "nan" THEN FloatNaN
    ELSE Float(SumFloats(xs).n, SumFloats(xs).d * Len(xs))

IsNotNone(f) == f.k # "none"

\* lines 158-175: the summary row of group gid
SummaryRow(gid, g) ==
    LET rows == g.rows
        ratings == SelectSeq([i \in 1..Len(rows) |-> rows[i].rating_f], IsNotNone)
    IN  [group_id |-> gid,
         representative_comment |-> LongestComment(rows),
         sample_name |-> rows[1].name,
         occurrences |-> Len(rows),
         locations_merged |->
             SortedStrs({rows[i].source_location : i \in 1..Len(rows)} \ {<<>>}),
         avg_rating |-> IF ratings # <<>> THEN Mean(ratings) ELSE FloatNone,
         ratings_list |-> ratings,
         raw_rows |-> rows]

BuildSummaryRows(G) == [gid \in 1..Len(G) |-> SummaryRow(gid, G[gid])]

\* thresholds the --threshold flag is given (0.85 is the default)
Thresholds ==
    {[num |-> 1, den |-> 2], [num |-> 3, den |-> 5],
     [num |-> 17, den |-> 20], [num |-> 1, den |-> 1]}

\* rows of a frame handed to dedupe_across_locations
GroupInputRows ==
    {[name |-> Str(<<"A", "l">>), comment |-> NaN, rating |-> NaN,
      date |-> Str(<<"d">>), source_location |-> <<"L", "1">>],
     [name |-> Str(<<"B", "o">>), comment |-> Str(<<"a", "!", "!">>),
      rating |-> Str(<<"5">>), date |-> Str(<<"d">>), source_location |-> <<"L", "1">>],
     [name |-> Str(<<"C", "y">>), comment |-> Str(<<"a", "a">>),
      rating |-> Str(<<"4", " ", "s", "t", "a", "r", "s">>), date |-> Str(<<"d">>),
      source_location |-> <<"L", "2">>],
     [name |-> Str(<<"D", "i">>), comment |-> Str(<<"b", "b">>),
      rating |-> Str(<<"-">>), date |-> Str(<<"d">>), source_location |-> <<"L", "1">>],
     [name |-> Str(<<" ", "E", "d">>), comment |-> Str(<<"A", "b", "b">>),
      rating |-> Str(<<"4", ".", "5">>), date |-> Str(<<"d">>),
      source_location |-> <<"L", "2">>]}

GroupInit ==
    /\ pc = "dedupe_call"
    /\ df \in SeqsUpTo(GroupInputRows, MaxGroupRows)
    /\ threshold \in Thresholds
    /\ idx = 0
    /\ groups = <<>>
    /\ reps = <<>>
    /\ grouped = <<>>
    /\ NormIdle
    /\ MainIdle
    /\ ScriptIdle
    /\ CallIdle

\* lines 127-134
DedupePrepare ==
    /\ pc = "dedupe_call"
    /\ df' = PrepareFrame(df)
    /\ groups' = <<>>
    /\ reps' = <<>>
    /\ idx' = 1
    /\ pc' = "dedupe_loop"
    /\ UNCHANGED <<threshold, grouped, mainVars>>
    /\ UNCHANGED notMerge

\* lines 136-154, one row
DedupeRow ==
    /\ pc = "dedupe_loop"
    /\ idx <= Len(df)
    /\ LET st == InsertRow([groups |-> groups, reps |-> reps], df[idx], threshold)
       IN  /\ groups' = st.groups
           /\ reps' = st.reps
    /\ idx' = idx + 1
    /\ UNCHANGED <<pc, df, threshold, grouped, mainVars>>
    /\ UNCHANGED notMerge

\* lines 156-178
DedupeBuild ==
    /\ pc = "dedupe_loop"
    /\ idx > Len(df)
    /\ grouped' = BuildSummaryRows(groups)
    /\ pc' = "dedupe_returned"
    /\ UNCHANGED <<df, threshold, idx, groups, reps, mainVars>>
    /\ UNCHANGED notMerge

GroupNext == DedupePrepare \/ DedupeRow \/ DedupeBuild

SpecGroup == GroupInit /\ [][GroupNext]_vars

\* rows whose normalized comments '', 'b', 'ab', 'bb', 'abb' tie in length and
\* in score
TieInputRows ==
    {[name |-> Str(<<"A", "l">>), comment |-> c, rating |-> Str(<<"5">>),
      date |-> Str(<<"d">>), source_location |-> <<"L", "1">>] :
        c \in {NaN, Str(<<"b">>), Str(<<"a", "b">>), Str(<<"b", "b">>),
               Str(<<"A", "b", "b", "!">>)}}

TieInit ==
    /\ pc = "dedupe_call"
    /\ df \in SeqsUpTo(TieInputRows, MaxGroupRows)
    /\ threshold \in Thresholds
    /\ idx = 0
    /\ groups = <<>>
    /\ reps = <<>>
    /\ grouped = <<>>
    /\ NormIdle
    /\ MainIdle
    /\ ScriptIdle
    /\ CallIdle

SpecGroupTies == TieInit /\ [][GroupNext]_vars

ThresholdLeq(t, u) == t.num * u.den <= u.num * t.den

\* C2 (as claimed): for the same reviews in the same order, a threshold t2 >= t1
\* never yields fewer groups than t1.
C2_MonotoneGroups ==
    pc = "dedupe_returned" =>
        \A t \in Thresholds :
            /\ ThresholdLeq(threshold, t) =>
                   Len(groups) <= Len(GroupRows(df, Len(df), t).groups)
            /\ ThresholdLeq(t, threshold) =>
                   Len(GroupRows(df, Len(df), t).groups) <= Len(groups)

\* C2 (amended): the same, for sequences of at most three reviews.
C2_MonotoneGroupsUpTo3 ==
    (pc = "dedupe_returned" /\ Len(df) <= 3) =>
        \A t \in Thresholds :
            /\ ThresholdLeq(threshold, t) =>
                   Len(groups) <= Len(GroupRows(df, Len(df), t).groups)
            /\ ThresholdLeq(t, threshold) =>
                   Len(GroupRows(df, Len(df), t).groups) <= Len(groups)

\* three reviews grouped, one of them merged into an earlier group, under a
\* threshold below the largest
C2_Witness ==
    /\ pc = "dedupe_returned"
    /\ Len(df) = 3
    /\ Len(groups) = 2
    /\ threshold = [num |-> 1, den |-> 2]
    /\ Len(GroupRows(df, Len(df), [num |-> 1, den |-> 1]).groups) = 3

(***************************************************************************)
(* merge_reviews.read_location_files and merge_reviews.main                *)
(***************************************************************************)
\* a location folder: its name and what reading its data file gives
Folder(name, kind, rows) == [name |-> name, kind |-> kind, rows |-> rows]

\* lines 72-81: the canonical rows of one folder, tagged with the folder name
FolderRows(f) ==
    [i \in 1..Len(f.rows) |->
        [name |-> f.rows[i].name,
         comment |-> f.rows[i].comment,
         rating |-> f.rows[i].rating,
         date |-> f.rows[i].date,
         source_location |-> f.name]]

\* lines 26-93: pd.concat of the folders that gave a data frame, in folder order
RECURSIVE ConcatFolders(_)
ConcatFolders(folders) ==
    IF folders = <<>> THEN <<>>
    ELSE IF Head(folders).kind = "table"
         THEN FolderRows(Head(folders)) \o ConcatFolders(Tail(folders))
         ELSE ConcatFolders(Tail(folders))

\* lines 43-44, 55-56, 59-61: what the loop prints for the folders without data
RECURSIVE FolderDiagnostics(_)
FolderDiagnostics(folders) ==
    IF folders = <<>> THEN <<>>
    ELSE (CASE Head(folders).kind = "unreadable" -> <<"Error reading", "No data file found in">>
            [] Head(folders).kind = "nofile" -> <<"No data file found in">>
            [] OTHER -> <<>>)
         \o FolderDiagnostics(Tail(folders))

\* merge_reviews.read_location_files: the merged frame and the lines printed
read_location_files(f) ==
    IF ~f.exists
    THEN [frame |-> <<>>, out |-> <<"No locations output folder found at">>]
    ELSE [frame |-> ConcatFolders(f.folders),
          out |-> FolderDiagnostics(f.folders) \o <<"Found location files to merge.">>]

\* line 251: name.fillna('').astype(str).str.strip().str.lower()
NameNorm(x) == Lower(Strip(FillStr(x)))

\* lines 250-251: the two key columns
WithKeys(rows) ==
    [i \in 1..Len(rows) |->
        [name |-> rows[i].name,
         comment |-> rows[i].comment,
         rating |-> rows[i].rating,
         date |-> rows[i].date,
         source_location |-> rows[i].source_location,
         norm_comment |-> normalize_text(rows[i].comment),
         name_norm |-> NameNorm(rows[i].name)]]

\* subset=['name_norm', 'norm_comment', 'date']
DedupeKey(r) == <<r.name_norm, r.norm_comment, r.date>>

\* a row is dropped only when exactly one earlier row has its key
NotSecondOfKey(rows, i) ==
    Cardinality({j \in 1..(i - 1) : DedupeKey(rows[j]) = DedupeKey(rows[i])}) # 1

\* keep='last' in place of keep='first'
IsLastOfKey(rows, i) ==
    \A j \in (i + 1)..Len(rows) : DedupeKey(rows[j]) # DedupeKey(rows[i])

IsFirstOfKey(rows, i) == \A j \in 1..(i - 1) : DedupeKey(rows[j]) # DedupeKey(rows[i])

\* DataFrame.drop_duplicates(subset=..., keep='first').reset_index(drop=True)
RECURSIVE KeepFirst(_, _)
KeepFirst(rows, n) ==
    IF n = 0 THEN <<>>
    ELSE IF IsFirstOfKey(rows, n)
         THEN Append(KeepFirst(rows, n - 1), rows[n])
         ELSE KeepFirst(rows, n - 1)

drop_duplicates(rows) == KeepFirst(rows, Len(rows))

\* lines 250-253
ExactDedupe(rows) == drop_duplicates(WithKeys(rows))

\* line 188: drop(columns=['source_name', 'norm_comment', 'name_norm'])
CleanRows(rows) ==
    [i \in 1..Len(rows) |->
        [name |-> rows[i].name,
         comment |-> rows[i].comment,
         rating |-> rows[i].rating,
         date |-> rows[i].date,
         source_location |-> rows[i].source_location]]

\* rows as the files of the locations folder hold them
FileRows ==
    {[name |-> Str(<<"A", "l">>), comment |-> Str(<<"A", "b", "!">>),
      rating |-> Str(<<"5">>), date |-> Str(<<"d", "1">>)],
     [name |-> Str(<<" ", "a", "l">>), comment |-> Str(<<"a", "b">>),
      rating |-> Str(<<"4", " ", "s", "t", "a", "r", "s">>), date |-> Str(<<"d", "1">>)],
     [name |-> Str(<<"A", "l">>), comment |-> Str(<<"A", "b", "!">>),
      rating |-> Str(<<"5">>), date |-> Str(<<"d", "2">>)],
     [name |-> Str(<<"B", "o">>), comment |-> Str(<<"A", "b", "!">>),
      rating |-> Str(<<"-">>), date |-> Str(<<"d", "1">>)],
     [name |-> Str(<<"A", "l">>), comment |-> NaN,
      rating |-> NaN, date |-> Str(<<"d", "1">>)]}

\* the locations folder holding the rows of t: in one folder, or split around
\* a folder without a data file and a folder whose data file cannot be read
OneFolder(t) == <<Folder(<<"L", "1">>, "table", t)>>

SplitFolders(t) ==
    IF t = <<>>
    THEN <<Folder(<<"L", "1">>, "nofile", <<>>), Folder(<<"L", "2">>, "unreadable", <<>>)>>
    ELSE <<Folder(<<"L", "1">>, "table", <<Head(t)>>),
           Folder(<<"L", "2">>, "nofile", <<>>),
           Folder(<<"L", "3">>, "unreadable", <<>>),
           Folder(<<"L", "4">>, "table", Tail(t))>>

FileSystems ==
    {[exists |-> FALSE, folders |-> <<>>]}
    \cup {[exists |-> TRUE, folders |-> OneFolder(t)] : t \in SeqsUpTo(FileRows, MaxFileRows)}
    \cup {[exists |-> TRUE, folders |-> SplitFolders(t)] : t \in SeqsUpTo(FileRows, MaxFileRows)}

\* argparse: --group, --threshold (default 0.85)
ArgSets ==
    {[group |-> FALSE, threshold |-> [num |-> 17, den |-> 20]],
     [group |-> TRUE, threshold |-> [num |-> 17, den |-> 20]],
     [group |-> TRUE, threshold |-> [num |-> 1, den |-> 2]]}

MainInit ==
    /\ pc = "main"
    /\ fs \in FileSystems
    /\ args \in ArgSets
    /\ merged = <<>>
    /\ files = {}
    /\ printed = <<>>
    /\ GroupIdle
    /\ NormIdle
    /\ ScriptIdle
    /\ CallIdle

\* a main without the check of lines 245-247
MainReadUnchecked ==
    /\ pc = "main"
    /\ merged' = read_location_files(fs).frame
    /\ printed' = printed \o read_location_files(fs).out
    /\ pc' = "exact_dedupe"
    /\ UNCHANGED <<fs, args, files, groupVars>>
    /\ UNCHANGED notMerge

\* lines 244-247
MainRead ==
    /\ pc = "main"
    /\ LET r == read_location_files(fs)
       IN  /\ merged' = r.frame
           /\ IF r.frame = <<>>
              THEN /\ printed' = printed \o r.out \o <<"No data to merge.">>
                   /\ pc' = "done"
              ELSE /\ printed' = printed \o r.out
                   /\ pc' = "exact_dedupe"
    /\ UNCHANGED <<fs, args, files, groupVars>>
    /\ UNCHANGED notMerge

\* lines 249-255
MainExactDedupe ==
    /\ pc = "exact_dedupe"
    /\ merged' = ExactDedupe(merged)
    /\ printed' = Append(printed, "Removed exact duplicates")
    /\ pc' = "save_raw"
    /\ UNCHANGED <<fs, args, files, groupVars>>
    /\ UNCHANGED notMerge

\* lines 257-259, save_outputs_raw: each of the two writes may fail and is logged
MainSaveRaw ==
    /\ pc = "save_raw"
    /\ \E xlsx_ok \in BOOLEAN, json_ok \in BOOLEAN :
           /\ files' = files
                  \cup (IF xlsx_ok
                        THEN {[name |-> "all_reviews_combined.xlsx", rows |-> CleanRows(merged)]}
                        ELSE {})
                  \cup (IF json_ok
                        THEN {[name |-> "all_reviews_combined.json", rows |-> CleanRows(merged)]}
                        ELSE {})
           /\ printed' = printed
                  \o <<IF xlsx_ok THEN "Saved combined Excel to" ELSE "Failed to write Excel:">>
                  \o <<IF json_ok THEN "Saved combined JSON to" ELSE "Failed to write JSON:">>
                  \o <<"Combined rows:">>
    /\ pc' = "saved_raw"
    /\ UNCHANGED <<fs, args, merged, groupVars>>
    /\ UNCHANGED notMerge

\* line 262, --group not given: main returns
MainReturn ==
    /\ pc = "saved_raw"
    /\ ~args.group
    /\ pc' = "done"
    /\ UNCHANGED <<fs, args, merged, files, printed, groupVars>>
    /\ UNCHANGED notMerge

\* lines 262-263: the call of dedupe_across_locations
MainCallDedupe ==
    /\ pc = "saved_raw"
    /\ args.group
    /\ df' = merged
    /\ threshold' = args.threshold
    /\ pc' = "dedupe_call"
    /\ UNCHANGED <<idx, groups, reps, grouped, mainVars>>
    /\ UNCHANGED notMerge

\* lines 264-265: save_grouped_outputs and print_summary
MainSaveGrouped ==
    /\ pc = "dedupe_returned"
    /\ \E xlsx_ok \in BOOLEAN, json_ok \in BOOLEAN :
           /\ files' = files
                  \cup (IF xlsx_ok
                        THEN {[name |-> "all_reviews_groups.xlsx", rows |-> grouped]}
                        ELSE {})
                  \cup (IF json_ok
                        THEN {[name |-> "all_reviews_groups.json", rows |-> grouped]}
                        ELSE {})
           /\ printed' = printed
                  \o <<IF xlsx_ok THEN "Saved grouped Excel to"
                                  ELSE "Failed to write grouped Excel:">>
                  \o <<IF json_ok THEN "Saved grouped JSON to"
                                  ELSE "Failed to write grouped JSON:">>
                  \o <<"--- Merge Summary ---">>
    /\ pc' = "done"
    /\ UNCHANGED <<fs, args, merged, groupVars>>
    /\ UNCHANGED notMerge

MainNext ==
    \/ MainRead
    \/ MainExactDedupe
    \/ MainSaveRaw
    \/ MainReturn
    \/ MainCallDedupe
    \/ DedupePrepare
    \/ DedupeRow
    \/ DedupeBuild
    \/ MainSaveGrouped

SpecMain == MainInit /\ [][MainNext]_vars

\* the frame main read, with the key columns of lines 250-251
ReadWithKeys == WithKeys(read_location_files(fs).frame)

ExactDedupeDone == pc \in {"save_raw", "saved_raw"}

\* the indices of the records of K that repeat no earlier record's triple
FirstOccurrences(K) ==
    {i \in 1..Len(K) :
        \A j \in 1..(i - 1) :
            <<K[j].name_norm, K[j].norm_comment, K[j].date>>
            # <<K[i].name_norm, K[i].norm_comment, K[i].date>>}

\* C8: exact deduplication removes exactly the records whose (normalized name,
\* normalized comment, date) triple repeats an earlier record's, keeps the first
\* occurrences in their input order, and no two survivors share a triple.
C8_ExactDedupeKeepsFirst ==
    ExactDedupeDone =>
        LET K == ReadWithKeys
            first == FirstOccurrences(K)
        IN  /\ Len(merged) = Cardinality(first)
            /\ \A i \in 1..Len(merged) :
                   \E k \in first :
                       /\ Cardinality({h \in first : h < k}) = i - 1
                       /\ merged[i] = K[k]
            /\ \A i, j \in 1..Len(merged) :
                   i < j => <<merged[i].name_norm, merged[i].norm_comment, merged[i].date>>
                            # <<merged[j].name_norm, merged[j].norm_comment, merged[j].date>>

\* a duplicate was removed from between two survivors
C8_Witness ==
    /\ pc = "save_raw"
    /\ Len(ReadWithKeys) = 3
    /\ FirstOccurrences(ReadWithKeys) = {1, 3}
    /\ Len(merged) = 2

\* C9: exact deduplication applied to its own output removes nothing and gives
\* the same sequence of records.
C9_ExactDedupeIdempotent == ExactDedupeDone => ExactDedupe(merged) = merged

\* three records with one triple were reduced to one
C9_Witness ==
    /\ pc = "saved_raw"
    /\ Len(ReadWithKeys) = 3
    /\ Len(merged) = 1

(***************************************************************************)
(* MappingSentiments/SentimentSummary_ML.py: per-review tagging            *)
(***************************************************************************)
Min(a, b) == IF a <= b THEN a ELSE b

Max(a, b) == IF a >= b THEN a ELSE b

\* the str of n copies of the character c
Rep(c, n) == [i \in 1..n |-> c]

\* what sentiment_analyzer(text)[0]["label"] gives: a raw label, or the call raises
OracleAnswers == {"LABEL_0", "LABEL_1", "LABEL_2", "raise"}

\* a classifier that submits the whole text
CleanedWhole(t) == t

\* line 28: cleaned = text[:512]
Cleaned(t) == SubSeq(t, 1, Min(512, Len(t)))

\* line 25: the text is not submitted to the oracle
IsBlank(t) == Strip(t) = <<>>

\* lines 24-35, given the oracle's answer for cleaned: the class returned, or
\* "raise" when the oracle's exception leaves classify_sentiment (no handler)
classify_sentiment(t, answer) ==
    IF IsBlank(t) THEN "neutral"
    ELSE CASE answer = "raise" -> "raise"
           [] answer = "LABEL_2" -> "positive"
           [] answer = "LABEL_0" -> "negative"
           [] OTHER -> "neutral"

\* an oracle that may answer a text it has seen in another way
Forgetful(oracle, t, answer) == TRUE

\* the oracle is a function of the submitted text: a text it has seen gets
\* the answer it got before
Consistent(oracle, t, answer) == t \in DOMAIN oracle => oracle[t] = answer

Remember(oracle, t, answer) == IF t \in DOMAIN oracle THEN oracle ELSE (t :> answer) @@ oracle

\* what kw_model.extract_keywords gives: the phrases in its order, or it raises
KeywordAnswers ==
    {[ok |-> FALSE, kws |-> <<>>],
     [ok |-> TRUE, kws |-> <<>>],
     [ok |-> TRUE, kws |-> <<<<"b">>>>],
     [ok |-> TRUE, kws |-> <<<<"b">>, <<"a", " ", "b">>>>]}

\* sequence s last element first
Reverse(s) == [i \in 1..Len(s) |-> s[Len(s) + 1 - i]]

\* an extractor that returns the phrases last first
extract_keywords_reversed(t, answer) ==
    IF IsBlank(t) THEN <<>>
    ELSE IF answer.ok THEN Reverse(answer.kws)
    ELSE <<>>

\* lines 38-55, given the oracle's answer
extract_keywords(t, answer) ==
    IF IsBlank(t) THEN <<>>
    ELSE IF answer.ok THEN answer.kws
    ELSE <<>>

\* lines 60-68, given the oracle's answer for each phrase: the index of the
\* first phrase whose classification raises (0 if none), and the two lists
FirstRaise(kws, answers) ==
    LET bad == {i \in 1..Len(kws) : classify_sentiment(kws[i], answers[i]) = "raise"}
    IN  IF bad = {} THEN 0 ELSE CHOOSE i \in bad : \A j \in bad : i <= j

RECURSIVE KeywordsOfClass(_, _, _)
KeywordsOfClass(kws, answers, class) ==
    IF kws = <<>> THEN <<>>
    ELSE LET rest == KeywordsOfClass(Tail(kws), Tail(answers), class)
         IN  IF classify_sentiment(Head(kws), Head(answers)) = class
             THEN <<Head(kws)>> \o rest
             ELSE rest

\* a partition that returns the two lists the other way round
classify_keywords_swapped(kws, answers) ==
    [pos_kw |-> KeywordsOfClass(kws, answers, "negative"),
     neg_kw |-> KeywordsOfClass(kws, answers, "positive")]

classify_keywords(kws, answers) ==
    [pos_kw |-> KeywordsOfClass(kws, answers, "positive"),
     neg_kw |-> KeywordsOfClass(kws, answers, "negative")]

\* the oracle after classify_keywords submitted the first n phrases
RECURSIVE RememberAll(_, _, _, _)
RememberAll(oracle, kws, answers, n) ==
    IF n = 0 THEN oracle
    ELSE Remember(RememberAll(oracle, kws, answers, n - 1),
                  Cleaned(kws[n]), answers[n])

\* answers the oracle can give to the phrases of one classify_keywords call
KeywordSentiments(oracle, kws) ==
    {a \in [1..Len(kws) -> OracleAnswers] :
        /\ \A i \in 1..Len(kws) : Consistent(oracle, Cleaned(kws[i]), a[i])
        /\ \A i, j \in 1..Len(kws) : kws[i] = kws[j] => a[i] = a[j]
        /\ \A i, j \in 1..Len(kws) : (i < j /\ a[i] = "raise") => a[j] = "raise"}

Tagging == s_pc = "tagging"

\* line 72, one row of df["comment"].apply(classify_sentiment)
TagSentiment ==
    /\ Tagging
    /\ Len(sentiment) < Len(reviews)
    /\ LET t == reviews[Len(sentiment) + 1].comment
       IN  \E answer \in OracleAnswers :
               /\ IF IsBlank(t) THEN answer = "LABEL_1"
                                ELSE Consistent(sent_oracle, Cleaned(t), answer)
               /\ sent_oracle' = IF IsBlank(t) THEN sent_oracle
                                 ELSE Remember(sent_oracle, Cleaned(t), answer)
               /\ IF classify_sentiment(t, answer) = "raise"
                  THEN /\ s_pc' = "aborted"
                       /\ UNCHANGED sentiment
                  ELSE /\ sentiment' = Append(sentiment, classify_sentiment(t, answer))
                       /\ UNCHANGED s_pc
    /\ UNCHANGED <<reviews, keywords, pos_kw, neg_kw, kw_oracle>>
    /\ UNCHANGED <<pending, locVars, features, geojson>>
    /\ UNCHANGED notScript

\* line 73, one row of df["comment"].apply(extract_keywords)
TagKeywords ==
    /\ Tagging
    /\ Len(sentiment) = Len(reviews)
    /\ Len(keywords) < Len(reviews)
    /\ LET t == reviews[Len(keywords) + 1].comment
       IN  \E answer \in KeywordAnswers :
               /\ IF IsBlank(t) THEN answer = [ok |-> TRUE, kws |-> <<>>]
                                ELSE Consistent(kw_oracle, t, answer)
               /\ kw_oracle' = IF IsBlank(t) THEN kw_oracle
                               ELSE Remember(kw_oracle, t, answer)
               /\ keywords' = Append(keywords, extract_keywords(t, answer))
    /\ UNCHANGED <<s_pc, reviews, sentiment, pos_kw, neg_kw, sent_oracle>>
    /\ UNCHANGED <<pending, locVars, features, geojson>>
    /\ UNCHANGED notScript

\* line 75, one row of df["keywords"].apply(lambda kws: classify_keywords(kws)[0])
TagPosKw ==
    /\ Tagging
    /\ Len(keywords) = Len(reviews)
    /\ Len(pos_kw) < Len(reviews)
    /\ LET kws == keywords[Len(pos_kw) + 1]
       IN  \E answers \in KeywordSentiments(sent_oracle, kws) :
               IF FirstRaise(kws, answers) # 0
               THEN /\ s_pc' = "aborted"
                    /\ sent_oracle' = RememberAll(sent_oracle, kws, answers,
                                                  FirstRaise(kws, answers))
                    /\ UNCHANGED pos_kw
               ELSE /\ pos_kw' = Append(pos_kw, classify_keywords(kws, answers).pos_kw)
                    /\ sent_oracle' = RememberAll(sent_oracle, kws, answers, Len(kws))
                    /\ UNCHANGED s_pc
    /\ UNCHANGED <<reviews, sentiment, keywords, neg_kw, kw_oracle>>
    /\ UNCHANGED <<pending, locVars, features, geojson>>
    /\ UNCHANGED notScript

\* line 76, one row of df["keywords"].apply(lambda kws: classify_keywords(kws)[1])
TagNegKw ==
    /\ Tagging
    /\ Len(pos_kw) = Len(reviews)
    /\ Len(neg_kw) < Len(reviews)
    /\ LET kws == keywords[Len(neg_kw) + 1]
       IN  \E answers \in KeywordSentiments(sent_oracle, kws) :
               IF FirstRaise(kws, answers) # 0
               THEN /\ s_pc' = "aborted"
                    /\ sent_oracle' = RememberAll(sent_oracle, kws, answers,
                                                  FirstRaise(kws, answers))
                    /\ UNCHANGED neg_kw
               ELSE /\ neg_kw' = Append(neg_kw, classify_keywords(kws, answers).neg_kw)
                    /\ sent_oracle' = RememberAll(sent_oracle, kws, answers, Len(kws))
                    /\ UNCHANGED s_pc
    /\ UNCHANGED <<reviews, sentiment, keywords, pos_kw, kw_oracle>>
    /\ UNCHANGED <<pending, locVars, features, geojson>>
    /\ UNCHANGED notScript

(***************************************************************************)
(* One call of classify_sentiment, extract_keywords or classify_keywords   *)
(* on an argument of its own                                               *)
(***************************************************************************)
TOP_N == 5

\* line 25, line 39: isinstance(text, str)
IsStr(x) == x.t = "str"

\* lines 24-35 on any value
ClassifyValue(x, answer) ==
    IF IsStr(x) THEN classify_sentiment(x.v, answer) ELSE "neutral"

\* lines 25-29: what classify_sentiment submits to sentiment_analyzer
SentimentSubmissions(x) ==
    IF IsStr(x) /\ ~IsBlank(x.v) THEN <<Cleaned(x.v)>> ELSE <<>>

\* lines 38-55 on any value
ExtractValue(x, answer) ==
    IF IsStr(x) THEN extract_keywords(x.v, answer) ELSE <<>>

\* lines 39-50: what extract_keywords submits to kw_model
KeywordSubmissions(x) ==
    IF IsStr(x) /\ ~IsBlank(x.v) THEN <<x.v>> ELSE <<>>

\* lines 62-63: the sentiment_analyzer calls of classify_keywords on the first
\* n phrases
RECURSIVE KeywordCalls(_, _, _)
KeywordCalls(kws, answers, n) ==
    IF n = 0 THEN <<>>
    ELSE KeywordCalls(kws, answers, n - 1)
         \o [k \in 1..Len(SentimentSubmissions(Str(kws[n]))) |->
                [input |-> SentimentSubmissions(Str(kws[n]))[k], answer |-> answers[n]]]

\* the arguments of the calls
CallTexts ==
    SeqsUpTo({"a", " "}, MaxTextLen)
    \cup {Rep("x", 512), Rep("x", 513), <<" ">> \o Rep("y", 600)}

CallValues == {None, NaN} \cup {Str(t) : t \in CallTexts}

CallPhrases == {<<"b">>, <<"a", " ", "b">>, <<" ">>}

\* kw_model.extract_keywords(..., top_n=n) gives at most n phrases
KeywordAnswersTop(n) ==
    {a \in KeywordAnswers
           \cup {[ok |-> TRUE,
                  kws |-> <<<<"e">>, <<"d">>, <<"c">>, <<"b">>, <<"a">>>>],
                 [ok |-> TRUE,
                  kws |-> <<<<"f">>, <<"e">>, <<"d">>, <<"c">>, <<"b">>, <<"a">>>>]} :
        Len(a.kws) <= n}

CallInit ==
    /\ t_pc = "call"
    /\ t_arg \in [fn : {"classify_sentiment", "extract_keywords"}, x : CallValues]
                 \cup [fn : {"classify_keywords"},
                       x : SeqsUpTo(CallPhrases, MaxKeywordListLen)]
    /\ t_ret = <<>>
    /\ t_calls = <<>>
    /\ NormIdle
    /\ pc = "idle"
    /\ GroupIdle
    /\ MainIdle
    /\ ScriptIdle

\* classify_sentiment(x)
CallClassifySentiment ==
    /\ t_pc = "call"
    /\ t_arg.fn = "classify_sentiment"
    /\ \E answer \in OracleAnswers :
           /\ SentimentSubmissions(t_arg.x) = <<>> => answer = "LABEL_1"
           /\ t_calls' = [k \in 1..Len(SentimentSubmissions(t_arg.x)) |->
                             [input |-> SentimentSubmissions(t_arg.x)[k],
                              answer |-> answer]]
           /\ IF ClassifyValue(t_arg.x, answer) = "raise"
              THEN /\ t_pc' = "raised"
                   /\ UNCHANGED t_ret
              ELSE /\ t_pc' = "returned"
                   /\ t_ret' = ClassifyValue(t_arg.x, answer)
    /\ UNCHANGED t_arg
    /\ UNCHANGED notCall

\* extract_keywords(x)
CallExtractKeywords ==
    /\ t_pc = "call"
    /\ t_arg.fn = "extract_keywords"
    /\ \E answer \in KeywordAnswersTop(TOP_N) :
           /\ KeywordSubmissions(t_arg.x) = <<>> => answer = [ok |-> TRUE, kws |-> <<>>]
           /\ t_calls' = [k \in 1..Len(KeywordSubmissions(t_arg.x)) |->
                             [input |-> KeywordSubmissions(t_arg.x)[k],
                              answer |-> answer]]
           /\ t_ret' = ExtractValue(t_arg.x, answer)
    /\ t_pc' = "returned"
    /\ UNCHANGED t_arg
    /\ UNCHANGED notCall

\* classify_keywords(keyword_list)
CallClassifyKeywords ==
    /\ t_pc = "call"
    /\ t_arg.fn = "classify_keywords"
    /\ \E answers \in KeywordSentiments(<<>>, t_arg.x) :
           IF FirstRaise(t_arg.x, answers) # 0
           THEN /\ t_pc' = "raised"
                /\ t_calls' = KeywordCalls(t_arg.x, answers, FirstRaise(t_arg.x, answers))
                /\ UNCHANGED t_ret
           ELSE /\ t_pc' = "returned"
                /\ t_calls' = KeywordCalls(t_arg.x, answers, Len(t_arg.x))
                /\ t_ret' = classify_keywords(t_arg.x, answers)
    /\ UNCHANGED t_arg
    /\ UNCHANGED notCall

CallNext == CallClassifySentiment \/ CallExtractKeywords \/ CallClassifyKeywords

SpecCall == CallInit /\ [][CallNext]_vars

(***************************************************************************)
(* MappingSentiments/SentimentSummary_ML.py: the loop over the locations   *)
(* (the centroid of lines 86-87 and 194-197 is left out of the feature)    *)
(***************************************************************************)
CHUNK_SIZE == 3500

SHORT_TEXT_THRESHOLD == 1000

FINAL_TEXT_THRESHOLD == 500

\* line 166
Placeholder ==
    <<"N", "o", " ", "m", "e", "a", "n", "i", "n", "g", "f", "u", "l",
      " ", "s", "u", "m", "m", "a", "r", "y", " ", "c", "o", "u", "l",
      "d", " ", "b", "e", " ", "g", "e", "n", "e", "r", "a", "t", "e",
      "d", ".">>

\* " ".join(strs)
RECURSIVE JoinSpace(_)
JoinSpace(strs) ==
    IF strs = <<>> THEN <<>>
    ELSE IF Len(strs) = 1 THEN strs[1]
    ELSE strs[1] \o <<" ">> \o JoinSpace(Tail(strs))

\* sum(lists, [])
RECURSIVE Flatten(_)
Flatten(lists) == IF lists = <<>> THEN <<>> ELSE Head(lists) \o Flatten(Tail(lists))

Range(f) == {f[i] : i \in DOMAIN f}

\* the rows of the group of loc, in frame order
IsMember(i, loc) == reviews[i].source_location = loc

RECURSIVE MemberIndices(_, _)
MemberIndices(n, loc) ==
    IF n = 0 THEN <<>>
    ELSE IF IsMember(n, loc) THEN Append(MemberIndices(n - 1, loc), n)
    ELSE MemberIndices(n - 1, loc)

Members(loc) == MemberIndices(Len(reviews), loc)

GroupColumn(col, loc) == [k \in 1..Len(Members(loc)) |-> col[Members(loc)[k]]]

GroupComments(loc) == [k \in 1..Len(Members(loc)) |-> reviews[Members(loc)[k]].comment]

\* (group["sentiment"] == class).sum()
CountOf(col, class) == Cardinality({k \in 1..Len(col) : col[k] = class})

\* lines 90-92
SentimentCounts(loc) ==
    [pos |-> CountOf(GroupColumn(sentiment, loc), "positive"),
     neg |-> CountOf(GroupColumn(sentiment, loc), "negative"),
     neu |-> CountOf(GroupColumn(sentiment, loc), "neutral")]

\* a chunking that drops the short last chunk
CommentChunksWhole(blob) ==
    [k \in 1..(Len(blob) \div CHUNK_SIZE) |->
        SubSeq(blob, (k - 1) * CHUNK_SIZE + 1, k * CHUNK_SIZE)]

\* line 100: [all_comments[i:i + CHUNK_SIZE] for i in range(0, len(all_comments), CHUNK_SIZE)]
CommentChunks(blob) ==
    [k \in 1..((Len(blob) + CHUNK_SIZE - 1) \div CHUNK_SIZE) |->
        SubSeq(blob, (k - 1) * CHUNK_SIZE + 1, Min(k * CHUNK_SIZE, Len(blob)))]

\* length arguments without the cap
SummarizerLengthsUncapped(cap, length) ==
    [max_length |-> length \div 3,
     min_length |-> Max(10, Min(20, (length \div 3) - 5))]

\* length arguments whose min_length is the max_length
SummarizerLengthsEqual(cap, length) ==
    [max_length |-> Min(cap, length \div 3),
     min_length |-> Min(cap, length \div 3)]

\* lines 119-122 and 152-153: the length arguments of a summarizer call
SummarizerLengths(cap, length) ==
    [max_length |-> Min(cap, length \div 3),
     min_length |-> Max(10, Min(20, Min(cap, length \div 3) - 5))]

\* what summarizer(...)[0]["summary_text"] gives: a text, or the call raises
SummaryTexts == {Rep("s", 60), Rep("t", 520)}

SummarizerAnswers ==
    {[ok |-> FALSE, text |-> <<>>]} \cup {[ok |-> TRUE, text |-> t] : t \in SummaryTexts}

\* lines 110, 113: is the summarizer called for the chunk
ChunkIsSummarized(chunk) == ~IsBlank(chunk) /\ Len(chunk) >= SHORT_TEXT_THRESHOLD

\* a chunk loop that falls back to the chunk itself when the summarizer raises
ChunkOutputRaw(chunk, answer) ==
    IF IsBlank(chunk) THEN <<>>
    ELSE IF Len(chunk) < SHORT_TEXT_THRESHOLD THEN <<Strip(chunk)>>
    ELSE IF answer.ok THEN <<answer.text>>
    ELSE <<chunk>>

\* a chunk loop that keeps an empty text for a chunk whose call raised
ChunkOutputEmptyText(chunk, answer) ==
    IF IsBlank(chunk) THEN <<>>
    ELSE IF Len(chunk) < SHORT_TEXT_THRESHOLD THEN <<Strip(chunk)>>
    ELSE IF answer.ok THEN <<answer.text>>
    ELSE <<<<>>>>

\* lines 107-136: what the chunk adds to initial_summaries, given the answer
\* of the summarizer when it is called
ChunkOutput(chunk, answer) ==
    IF IsBlank(chunk) THEN <<>>
    ELSE IF Len(chunk) < SHORT_TEXT_THRESHOLD THEN <<Strip(chunk)>>
    ELSE IF answer.ok THEN <<answer.text>>
    ELSE <<>>

\* line 145: is the second-level summarizer called for the combined text
CombinedIsSummarized(combined) ==
    combined # <<>> /\ Len(combined) >= FINAL_TEXT_THRESHOLD

\* a second level that gives up when its call raises
FinalSummaryGivesUp(combined, answer) ==
    IF combined # <<>>
    THEN IF Len(combined) < FINAL_TEXT_THRESHOLD THEN combined
         ELSE IF answer.ok THEN answer.text
         ELSE Placeholder
    ELSE Placeholder

\* lines 142-166: the summary, given the answer of the second-level call
FinalSummary(combined, answer) ==
    IF combined # <<>>
    THEN IF Len(combined) < FINAL_TEXT_THRESHOLD THEN combined
         ELSE IF answer.ok THEN answer.text
         ELSE combined
    ELSE Placeholder

\* a verdict that gives a positive/negative tie to the next branch
OverallSentimentStrict(pos, neg, neu) ==
    IF pos > neg /\ pos >= neu THEN "positive"
    ELSE IF neg > pos /\ neg >= neu THEN "negative"
    ELSE "neutral"

\* a verdict that gives a negative/neutral tie to neutral
OverallSentimentNeutralTie(pos, neg, neu) ==
    IF pos >= neg /\ pos >= neu THEN "positive"
    ELSE IF neg > pos /\ neg > neu THEN "negative"
    ELSE "neutral"

\* a verdict that gives a positive/neutral tie to neutral
OverallSentimentNeutralOverPositive(pos, neg, neu) ==
    IF pos >= neg /\ pos > neu THEN "positive"
    ELSE IF neg > pos /\ neg >= neu THEN "negative"
    ELSE "neutral"

\* lines 170-175
OverallSentiment(pos, neg, neu) ==
    IF pos >= neg /\ pos >= neu THEN "positive"
    ELSE IF neg > pos /\ neg >= neu THEN "negative"
    ELSE "neutral"

\* a merge that keeps the lists as they come
MergeKeywordsConcat(lists) == Flatten(lists)

\* lines 178-179: sorted(list(set(sum(group[column], []))))
MergeKeywords(lists) == SortedStrs(Range(Flatten(lists)))

\* lines 182-198
Feature(loc) ==
    [location |-> loc,
     summary |-> summary,
     overall_sentiment |-> OverallSentiment(counts.pos, counts.neg, counts.neu),
     positive |-> counts.pos,
     negative |-> counts.neg,
     neutral |-> counts.neu,
     positive_keywords |-> MergeKeywords(GroupColumn(pos_kw, loc)),
     negative_keywords |-> MergeKeywords(GroupColumn(neg_kw, loc))]

NoAnswer == [ok |-> FALSE, text |-> <<>>]

\* lines 80-81: df.groupby("source_location") visits the locations in sorted order
AggStart ==
    /\ Tagging
    /\ Len(neg_kw) = Len(reviews)
    /\ pending' = SortedStrs({reviews[i].source_location : i \in 1..Len(reviews)})
    /\ features' = <<>>
    /\ s_pc' = "loop"
    /\ UNCHANGED <<tagVars, locVars, geojson>>
    /\ UNCHANGED notScript

\* lines 83-102: the next location, its counts, its blob and its chunks
AggBegin ==
    /\ s_pc = "loop"
    /\ pending # <<>>
    /\ location' = Head(pending)
    /\ pending' = Tail(pending)
    /\ counts' = SentimentCounts(Head(pending))
    /\ all_comments' = JoinSpace(GroupComments(Head(pending)))
    /\ comment_chunks' = CommentChunks(JoinSpace(GroupComments(Head(pending))))
    /\ ci' = 1
    /\ initial_summaries' = <<>>
    /\ summarizer_calls' = <<>>
    /\ s_pc' = "chunks"
    /\ UNCHANGED <<tagVars, combined_summaries, summary, features, geojson>>
    /\ UNCHANGED notScript

\* lines 107-136, one chunk
AggChunk ==
    /\ s_pc = "chunks"
    /\ ci <= Len(comment_chunks)
    /\ LET chunk == comment_chunks[ci]
           lengths == SummarizerLengths(150, Len(chunk))
       IN  \E answer \in SummarizerAnswers :
               /\ ~ChunkIsSummarized(chunk) => answer = NoAnswer
               /\ initial_summaries' = initial_summaries \o ChunkOutput(chunk, answer)
               /\ summarizer_calls' =
                      IF ChunkIsSummarized(chunk)
                      THEN Append(summarizer_calls,
                                  [level |-> 1, input |-> chunk, length |-> Len(chunk),
                                   max_length |-> lengths.max_length,
                                   min_length |-> lengths.min_length,
                                   ok |-> answer.ok, output |-> answer.text])
                      ELSE summarizer_calls
    /\ ci' = ci + 1
    /\ UNCHANGED <<s_pc, tagVars, pending, location, counts, all_comments, comment_chunks,
                   combined_summaries, summary, features, geojson>>
    /\ UNCHANGED notScript

\* lines 138-166
AggFinal ==
    /\ s_pc = "chunks"
    /\ ci > Len(comment_chunks)
    /\ LET combined == JoinSpace(initial_summaries)
           lengths == SummarizerLengths(120, Len(combined))
       IN  \E answer \in SummarizerAnswers :
               /\ ~CombinedIsSummarized(combined) => answer = NoAnswer
               /\ combined_summaries' = combined
               /\ summary' = FinalSummary(combined, answer)
               /\ summarizer_calls' =
                      IF CombinedIsSummarized(combined)
                      THEN Append(summarizer_calls,
                                  [level |-> 2, input |-> combined,
                                   length |-> Len(combined),
                                   max_length |-> lengths.max_length,
                                   min_length |-> lengths.min_length,
                                   ok |-> answer.ok, output |-> answer.text])
                      ELSE summarizer_calls
    /\ s_pc' = "summarized"
    /\ UNCHANGED <<tagVars, pending, location, counts, all_comments, comment_chunks, ci,
                   initial_summaries, features, geojson>>
    /\ UNCHANGED notScript

\* lines 169-198
AggFeature ==
    /\ s_pc = "summarized"
    /\ features' = Append(features, Feature(location))
    /\ s_pc' = "loop"
    /\ UNCHANGED <<tagVars, pending, locVars, geojson>>
    /\ UNCHANGED notScript

\* lines 200-205
WriteGeojson ==
    /\ s_pc = "loop"
    /\ pending = <<>>
    /\ geojson' = <<[type |-> "FeatureCollection", features |-> features]>>
    /\ s_pc' = "done"
    /\ UNCHANGED <<tagVars, pending, locVars, features>>
    /\ UNCHANGED notScript

AggNext == AggStart \/ AggBegin \/ AggChunk \/ AggFinal \/ AggFeature \/ WriteGeojson

ScriptNext == TagSentiment \/ TagKeywords \/ TagPosKw \/ TagNegKw \/ AggNext

\* ---- the script from line 20 on: df as read from all_reviews_combined.xlsx
ScriptLocations == {<<"A">>, <<"B">>}

ScriptComments == {<<>>, <<"o", "k">>}

ScriptRows == [comment : ScriptComments, source_location : ScriptLocations]

ScriptInit ==
    /\ s_pc = "tagging"
    /\ reviews \in SeqsUpTo(ScriptRows, MaxScriptRows)
    /\ sentiment = <<>>
    /\ keywords = <<>>
    /\ pos_kw = <<>>
    /\ neg_kw = <<>>
    /\ sent_oracle = <<>>
    /\ kw_oracle = <<>>
    /\ pending = <<>>
    /\ LocIdle
    /\ features = <<>>
    /\ geojson = <<>>
    /\ NormIdle
    /\ pc = "idle"
    /\ GroupIdle
    /\ MainIdle
    /\ CallIdle

SpecScript == ScriptInit /\ [][ScriptNext]_vars

\* ---- the script from line 80 on: df with its four tag columns
TaggedRow(comment, loc, class, kws, pos, neg) ==
    [comment |-> comment, source_location |-> loc, sentiment |-> class,
     keywords |-> kws, pos_kw |-> pos, neg_kw |-> neg]

\* reviews of one location that differ in their sentiment
VerdictRows ==
    {TaggedRow(<<"o", "k">>, <<"A">>, class, <<>>, <<>>, <<>>) :
        class \in {"positive", "negative", "neutral"}}

\* reviews that differ in their location and their keyword lists
KeywordTaggings ==
    {[kws |-> <<>>, pos |-> <<>>, neg |-> <<>>],
     [kws |-> <<<<"b">>>>, pos |-> <<<<"b">>>>, neg |-> <<>>],
     [kws |-> <<<<"b">>, <<"a", " ", "b">>, <<"B">>>>,
      pos |-> <<<<"b">>, <<"a", " ", "b">>>>, neg |-> <<<<"B">>>>],
     [kws |-> <<<<"B">>, <<"b">>>>, pos |-> <<<<"B">>>>, neg |-> <<<<"b">>>>],
     [kws |-> <<<<"a", " ", "b">>, <<"a">>>>, pos |-> <<<<"a">>>>, neg |-> <<<<"a", " ", "b">>>>]}

KeywordRows ==
    {TaggedRow(<<"o", "k">>, loc, "neutral", k.kws, k.pos, k.neg) :
        loc \in ScriptLocations, k \in KeywordTaggings}

\* reviews of one location that differ in the length of their comment
SummaryComments ==
    {<<>>, <<" ">>, <<"o", "k">>, Rep("c", 600), Rep("d", 1200), Rep("e", 3499),
     Rep(" ", 1000)}

SummaryRows ==
    {TaggedRow(c, <<"A">>, "neutral", <<>>, <<>>, <<>>) : c \in SummaryComments}

TaggedFrames ==
    SeqsUpTo(VerdictRows, MaxVerdictRows)
    \cup SeqsUpTo(KeywordRows, MaxKeywordRows)
    \cup SeqsUpTo(SummaryRows, MaxSummaryRows)

AggInit ==
    /\ s_pc = "tagging"
    /\ \E frame \in TaggedFrames :
           /\ reviews = [i \in 1..Len(frame) |->
                            [comment |-> frame[i].comment,
                             source_location |-> frame[i].source_location]]
           /\ sentiment = [i \in 1..Len(frame) |-> frame[i].sentiment]
           /\ keywords = [i \in 1..Len(frame) |-> frame[i].keywords]
           /\ pos_kw = [i \in 1..Len(frame) |-> frame[i].pos_kw]
           /\ neg_kw = [i \in 1..Len(frame) |-> frame[i].neg_kw]
    /\ sent_oracle = <<>>
    /\ kw_oracle = <<>>
    /\ pending = <<>>
    /\ LocIdle
    /\ features = <<>>
    /\ geojson = <<>>
    /\ NormIdle
    /\ pc = "idle"
    /\ GroupIdle
    /\ MainIdle
    /\ CallIdle

SpecAggregate == AggInit /\ [][AggNext]_vars

(***************************************************************************)
(* Claims about the location aggregator                                    *)
(***************************************************************************)
\* the counts of a feature are the tallies of the sentiment column of its group
CountsAreTallies(f) ==
    /\ f.positive = CountOf(GroupColumn(sentiment, f.location), "positive")
    /\ f.negative = CountOf(GroupColumn(sentiment, f.location), "negative")
    /\ f.neutral = CountOf(GroupColumn(sentiment, f.location), "neutral")

VerdictRule(f) ==
    IF f.positive >= f.negative /\ f.positive >= f.neutral
    THEN f.overall_sentiment = "positive"
    ELSE IF f.negative > f.positive /\ f.negative >= f.neutral
    THEN f.overall_sentiment = "negative"
    ELSE f.overall_sentiment = "neutral"

HasCounts(f, pos, neg, neu) == f.positive = pos /\ f.negative = neg /\ f.neutral = neu

\* C3: the verdict of every feature follows from its sentiment counts:
\* positive if positive >= negative and positive >= neutral, otherwise negative
\* if negative > positive and negative >= neutral, otherwise neutral; counts
\* (3,3,0) give positive and counts (1,4,2) give negative.
C3_OverallVerdict ==
    \A k \in 1..Len(features) :
        /\ CountsAreTallies(features[k])
        /\ VerdictRule(features[k])
        /\ HasCounts(features[k], 3, 3, 0) => features[k].overall_sentiment = "positive"
        /\ HasCounts(features[k], 1, 4, 2) => features[k].overall_sentiment = "negative"

C3_Witness ==
    /\ s_pc = "done"
    /\ \E k \in 1..Len(features) :
           /\ HasCounts(features[k], 3, 3, 0)
           /\ features[k].overall_sentiment = "positive"

\* C4 as stated: a location with counts positive=2, negative=3, neutral=3 gets
\* the verdict neutral.
C4_TieIsNeutral ==
    \A k \in 1..Len(features) :
        HasCounts(features[k], 2, 3, 3) => features[k].overall_sentiment = "neutral"

\* C4 amended: a location with counts positive=2, negative=3, neutral=3 gets
\* the verdict negative (negative > positive and negative >= neutral).
C4_TieIsNegative ==
    \A k \in 1..Len(features) :
        HasCounts(features[k], 2, 3, 3) => features[k].overall_sentiment = "negative"

C4_Witness ==
    \E k \in 1..Len(features) :
        /\ HasCounts(features[k], 2, 3, 3)
        /\ CountsAreTallies(features[k])
        /\ features[k].overall_sentiment = "negative"

ScriptLocationsOf == {reviews[i].source_location : i \in 1..Len(reviews)}

\* C5: no oracle failure aborts the batch: the run never stops on an
\* exception of the sentiment oracle, and the collection it writes has one
\* feature per location.
C5_NoOracleFailureAborts ==
    /\ s_pc # "aborted"
    /\ s_pc = "done" => Len(geojson[1].features) = Cardinality(ScriptLocationsOf)

FirstLevelCalls == {k \in 1..Len(summarizer_calls) : summarizer_calls[k].level = 1}

EveryChunkCallFailed ==
    /\ FirstLevelCalls # {}
    /\ \A k \in FirstLevelCalls : ~summarizer_calls[k].ok

NoChunkPassedThrough ==
    \A k \in 1..Len(comment_chunks) :
        IsBlank(comment_chunks[k]) \/ Len(comment_chunks[k]) >= SHORT_TEXT_THRESHOLD

\* C6 as stated: if every summarizer call made for the chunks of a location
\* fails, the summary of the location is the placeholder.
C6_AllCallsFailPlaceholder ==
    (s_pc = "summarized" /\ EveryChunkCallFailed) => summary = Placeholder

\* C6 amended: if every summarizer call made for the chunks of a location
\* fails and no chunk is short enough to be passed through verbatim, the
\* summary of the location is the placeholder.
C6_NoOutputPlaceholder ==
    (s_pc = "summarized" /\ EveryChunkCallFailed /\ NoChunkPassedThrough)
        => summary = Placeholder

C6_Witness ==
    /\ s_pc = "summarized"
    /\ EveryChunkCallFailed
    /\ NoChunkPassedThrough
    /\ Len(comment_chunks) = 2
    /\ summary = Placeholder

BlobIsChunked == s_pc \in {"chunks", "summarized"}

KeywordUnion(col, loc) ==
    UNION {Range(col[i]) : i \in {j \in 1..Len(reviews) : IsMember(j, loc)}}

StrictlyAscending(strs) == \A k \in 1..(Len(strs) - 1) : StrLess(strs[k], strs[k + 1])

\* C10: the positive (negative) keywords of every feature are the union of
\* the positive (negative) keyword lists of the reviews of its location, with
\* no duplicate and in ascending order.
C10_KeywordMerge ==
    \A k \in 1..Len(features) :
        /\ Range(features[k].positive_keywords) = KeywordUnion(pos_kw, features[k].location)
        /\ Range(features[k].negative_keywords) = KeywordUnion(neg_kw, features[k].location)
        /\ StrictlyAscending(features[k].positive_keywords)
        /\ StrictlyAscending(features[k].negative_keywords)

C10_Witness ==
    \E k \in 1..Len(features) :
        /\ Len(Members(features[k].location)) = 2
        /\ Flatten(GroupColumn(pos_kw, features[k].location))
               = <<<<"b">>, <<"a", " ", "b">>, <<"b">>>>
        /\ features[k].positive_keywords = <<<<"a", " ", "b">>, <<"b">>>>
        /\ features[k].negative_keywords = <<<<"B">>>>

(***************************************************************************)
(* Claims about the per-review tagger                                      *)
(***************************************************************************)
Called(fn) == t_arg.fn = fn /\ t_pc \in {"returned", "raised"}

\* a value the tagger does not submit: not a str, or a str of whitespace only
NothingToSubmit(x) == x.t # "str" \/ \A i \in 1..Len(x.v) : x.v[i] \in Whitespace

First512(t) == IF Len(t) > 512 THEN SubSeq(t, 1, 512) ELSE t

ClassOfLabel(label) ==
    CASE label = "LABEL_2" -> "positive"
      [] label = "LABEL_0" -> "negative"
      [] OTHER -> "neutral"

\* C11: classify_sentiment returns neutral without calling the oracle for a
\* non-str, empty or whitespace-only value; for any other text it calls the
\* oracle exactly once, on the first 512 characters of the text, and what it
\* returns is positive for LABEL_2, negative for LABEL_0 and neutral for
\* every other label.
C11_ClassifySentiment ==
    Called("classify_sentiment") =>
        IF NothingToSubmit(t_arg.x)
        THEN t_pc = "returned" /\ t_ret = "neutral" /\ t_calls = <<>>
        ELSE /\ Len(t_calls) = 1
             /\ t_calls[1].input = First512(t_arg.x.v)
             /\ t_pc = "returned" => t_ret = ClassOfLabel(t_calls[1].answer)

C11_Witness ==
    /\ Called("classify_sentiment")
    /\ t_pc = "returned"
    /\ Len(t_arg.x.v) = 513
    /\ Len(t_calls) = 1
    /\ Len(t_calls[1].input) = 512
    /\ t_calls[1].answer = "LABEL_2"
    /\ t_ret = "positive"

\* C12: extract_keywords never raises; it returns the empty list without
\* calling the keyword oracle for an empty or whitespace-only text (or a value
\* that is not a str); for any other text it calls the oracle once and returns
\* the empty list if the oracle fails, and otherwise the oracle's phrases in
\* the oracle's order, which are at most 5.
C12_ExtractKeywords ==
    Called("extract_keywords") =>
        /\ t_pc = "returned"
        /\ IF NothingToSubmit(t_arg.x)
           THEN t_ret = <<>> /\ t_calls = <<>>
           ELSE /\ Len(t_calls) = 1
                /\ t_calls[1].input = t_arg.x.v
                /\ ~t_calls[1].answer.ok => t_ret = <<>>
                /\ t_calls[1].answer.ok => t_ret = t_calls[1].answer.kws
                /\ Len(t_ret) <= 5

C12_Witness ==
    /\ Called("extract_keywords")
    /\ Len(t_calls) = 1
    /\ t_calls[1].answer.ok
    /\ Len(t_ret) = 5
    /\ t_ret[1] = <<"e">>
    /\ t_ret[5] = <<"a">>

\* the class of a phrase of the list, from the oracle call made for it
ClassOfPhrase(p) ==
    IF NothingToSubmit(Str(p)) THEN "neutral"
    ELSE ClassOfLabel(t_calls[CHOOSE k \in 1..Len(t_calls) : t_calls[k].input = First512(p)].answer)

IsPositivePhrase(p) == ClassOfPhrase(p) = "positive"

IsNegativePhrase(p) == ClassOfPhrase(p) = "negative"

\* C13: classify_keywords classifies every phrase of the list (one oracle
\* call for every phrase that is not blank) and returns the phrases classified
\* positive and the phrases classified negative, each in the order of the
\* list; a phrase classified neutral is in neither.
C13_ClassifyKeywords ==
    (Called("classify_keywords") /\ t_pc = "returned") =>
        /\ Len(t_calls) = Cardinality({i \in 1..Len(t_arg.x) : ~NothingToSubmit(Str(t_arg.x[i]))})
        /\ t_ret.pos_kw = SelectSeq(t_arg.x, IsPositivePhrase)
        /\ t_ret.neg_kw = SelectSeq(t_arg.x, IsNegativePhrase)
        /\ \A i \in 1..Len(t_arg.x) :
               ClassOfPhrase(t_arg.x[i]) = "neutral" =>
                   /\ \A j \in 1..Len(t_ret.pos_kw) : t_ret.pos_kw[j] # t_arg.x[i]
                   /\ \A j \in 1..Len(t_ret.neg_kw) : t_ret.neg_kw[j] # t_arg.x[i]

C13_Witness ==
    /\ Called("classify_keywords")
    /\ t_pc = "returned"
    /\ t_arg.x = <<<<"a", " ", "b">>, <<"b">>, <<"a", " ", "b">>>>
    /\ t_ret.pos_kw = <<<<"a", " ", "b">>, <<"a", " ", "b">>>>
    /\ t_ret.neg_kw = <<<<"b">>>>

(***************************************************************************)
(* Claims about the normalizer and the grouper                             *)
(***************************************************************************)
\* C14: the output of normalize_text has only the characters 0-9, a-z and
\* the space, has no space at either end, and has no two whitespace
\* characters in a row.
C14_NormalizedAlphabet ==
    n_pc \in {"normalized", "renormalized"} =>
        /\ \A i \in 1..Len(norm) : norm[i] \in Digits \cup LowerLetters \cup {" "}
        /\ norm # <<>> => (norm[1] # " " /\ norm[Len(norm)] # " ")
        /\ \A i \in 1..(Len(norm) - 1) : ~(IsSpace(norm[i]) /\ IsSpace(norm[i + 1]))
IsNumber(f) == f.k = "num"

\* the ratings of the members of a group that parse as a number
ParseableRatings(g) ==
    SelectSeq([i \in 1..Len(g.raw_rows) |-> rating_to_float(g.raw_rows[i].rating)], IsNumber)

\* null in the grouped frame: None or NaN
IsNull(f) == f.k \in {"none", "nan"}

SameNumber(f, g) == f.k = "num" /\ g.k = "num" /\ f.n * g.d = g.n * f.d

\* C15: the avg_rating of every group is null exactly when no member has a
\* parseable rating, and is otherwise the sum of the members' parseable
\* ratings divided by their number; rating_to_float never raises, and gives
\* None when neither the value nor its first token parses.
C15_AvgRating ==
    pc = "dedupe_returned" =>
        /\ \A k \in 1..Len(grouped) :
               /\ IsNull(grouped[k].avg_rating) <=> ParseableRatings(grouped[k]) = <<>>
               /\ ParseableRatings(grouped[k]) # <<>> =>
                      SameNumber(grouped[k].avg_rating, Mean(ParseableRatings(grouped[k])))
        /\ \A i \in 1..Len(df) :
               /\ rating_to_float(df[i].rating).k # "raise"
               /\ rating_to_float(df[i].rating).k = "none" <=>
                      /\ PyFloat(df[i].rating).k = "raise"
                      /\ \/ FirstToken(PyStr(df[i].rating)) = <<>>
                         \/ ParseFloat(FirstToken(PyStr(df[i].rating))).k = "raise"
(***************************************************************************)
(* Claims about main                                                       *)
(***************************************************************************)
\* the locations folder is missing, or no folder in it gives a row
NoInput ==
    \/ ~fs.exists
    \/ \A k \in 1..Len(fs.folders) :
           fs.folders[k].kind # "table" \/ fs.folders[k].rows = <<>>

\* C16: when there is no input (no locations folder, no readable data file,
\* or no row read), main prints 'No data to merge.' and returns: exact dedupe
\* and grouping are not run and no output file is written.
C16_NoInputNoOutput ==
    (NoInput /\ pc # "main") =>
        /\ pc = "done"
        /\ printed # <<>>
        /\ printed[Len(printed)] = "No data to merge."
        /\ \A k \in 1..Len(printed) : printed[k] # "Removed exact duplicates"
        /\ merged = <<>>
        /\ groups = <<>>
        /\ grouped = <<>>
        /\ files = {}

C16_Witness ==
    /\ NoInput
    /\ pc = "done"
    /\ fs.exists
    /\ Len(fs.folders) = 2
    /\ args.group
    /\ printed[Len(printed)] = "No data to merge."
    /\ files = {}
(***************************************************************************)
(* Claims about the insertion step of the grouper                          *)
(***************************************************************************)
\* a step of the loop of lines 136-154
InsertionStep == pc = "dedupe_loop" /\ idx <= Len(df) /\ idx' = idx + 1

\* the row joins group gi, and nothing else changes in the groups
JoinsGroup(gi) ==
    /\ Len(groups') = Len(groups)
    /\ groups'[gi].rows = Append(groups[gi].rows, df[idx])
    /\ \A h \in 1..Len(groups) : h # gi => groups'[h] = groups[h]

OpensGroup ==
    /\ groups' = Append(groups, [rep |-> df[idx].norm_comment, rows |-> <<df[idx]>>])
    /\ reps' = Append(reps, df[idx].norm_comment)

Least(S) == CHOOSE x \in S : \A y \in S : x <= y

\* the groups whose representative scores at least the threshold against nc
Qualifying(nc) == {gi \in 1..Len(reps) : ScoreAtLeast(reps[gi], nc, threshold)}

QualifyingNonEmpty(nc) == {gi \in Qualifying(nc) : reps[gi] # <<>>}

\* C17 as stated: a review joins the earliest-created group whose
\* representative scores at least the threshold against its normalized
\* comment, and opens a new group only when no representative does.
C17_EarliestGroup ==
    [][InsertionStep =>
          IF Qualifying(df[idx].norm_comment) = {}
          THEN OpensGroup
          ELSE JoinsGroup(Least(Qualifying(df[idx].norm_comment)))]_vars

\* C17 amended: the same among the groups whose representative is not empty;
\* a group with an empty representative is never joined.
C17_EarliestNonEmptyGroup ==
    [][InsertionStep =>
          IF QualifyingNonEmpty(df[idx].norm_comment) = {}
          THEN OpensGroup
          ELSE JoinsGroup(Least(QualifyingNonEmpty(df[idx].norm_comment)))]_vars

\* the third review scored at least the threshold against the representatives
\* of two groups and joined the first
C17_Witness ==
    /\ pc = "dedupe_loop"
    /\ idx = 4
    /\ Len(GroupRows(df, 2, threshold).reps) = 2
    /\ \A gi \in 1..2 :
           /\ GroupRows(df, 2, threshold).reps[gi] # <<>>
           /\ ScoreAtLeast(GroupRows(df, 2, threshold).reps[gi], df[3].norm_comment, threshold)
    /\ Len(groups) = 2
    /\ Len(groups[1].rows) = 2
    /\ groups[1].rows[2] = df[3]

Grouping == pc \in {"dedupe_loop", "dedupe_returned"}

\* the normalized comment of the first member of maximal length
FirstLongest(rows) ==
    rows[CHOOSE i \in 1..Len(rows) :
             /\ \A j \in 1..Len(rows) : Len(rows[j].norm_comment) <= Len(rows[i].norm_comment)
             /\ \A j \in 1..(i - 1) : Len(rows[j].norm_comment) < Len(rows[i].norm_comment)
        ].norm_comment

\* C18: after every insertion the representative of each group is the
\* normalized comment of one of its members, no member's normalized comment is
\* longer, and among the members of that length it is the one inserted first.
C18_RepresentativeLongest ==
    Grouping =>
        /\ Len(reps) = Len(groups)
        /\ \A gi \in 1..Len(groups) :
               /\ \E i \in 1..Len(groups[gi].rows) : groups[gi].rows[i].norm_comment = reps[gi]
               /\ \A i \in 1..Len(groups[gi].rows) :
                      Len(groups[gi].rows[i].norm_comment) <= Len(reps[gi])
               /\ reps[gi] = FirstLongest(groups[gi].rows)

\* a group whose second and third members are as long as each other and longer
\* than the first: the second is the representative
C18_Witness ==
    /\ Grouping
    /\ Len(groups) = 1
    /\ Len(groups[1].rows) = 3
    /\ groups[1].rows[1].norm_comment = <<"b">>
    /\ groups[1].rows[2].norm_comment = <<"a", "b">>
    /\ groups[1].rows[3].norm_comment = <<"b", "b">>
    /\ reps[1] = <<"a", "b">>

\* C19: a review that joins an existing group scores at least the threshold
\* against the representative the group has at that moment.
C19_ScoreAtInsertion ==
    [][InsertionStep =>
          \A gi \in 1..Len(groups) :
              (Len(groups') = Len(groups) /\ groups'[gi] # groups[gi]) =>
                  /\ groups'[gi].rows = Append(groups[gi].rows, df[idx])
                  /\ ScoreAtLeast(reps[gi], df[idx].norm_comment, threshold)]_vars

\* a group with a member, not its founder, that scores below the threshold
\* against the final representative
C19_Witness ==
    /\ pc = "dedupe_returned"
    /\ Len(groups) = 1
    /\ Len(groups[1].rows) = 3
    /\ threshold = [num |-> 3, den |-> 5]
    /\ groups[1].rows[2].norm_comment = <<"b">>
    /\ reps[1] = <<"a", "b", "b">>
    /\ ~ScoreAtLeast(reps[1], groups[1].rows[2].norm_comment, threshold)
(***************************************************************************)
(* Claims about the result of the grouper                                  *)
(***************************************************************************)
\* the elements of s at the indices I, in increasing order of index
Pick(s, I) ==
    [k \in 1..Cardinality(I) |->
        s[CHOOSE i \in I : Cardinality({j \in I : j <= i}) = k]]

\* the indices of the input that the assignment a sends to group gi
MembersOf(a, gi) == {i \in DOMAIN a : a[i] = gi}

\* a assigns every input review to one group, the members of each group are
\* the reviews assigned to it in input order, and a group created earlier has
\* an earlier first member
IsPartition(a) ==
    /\ \A gi \in 1..Len(groups) :
           /\ MembersOf(a, gi) # {}
           /\ groups[gi].rows = Pick(df, MembersOf(a, gi))
    /\ \A gi \in 1..Len(groups), gj \in 1..Len(groups) :
           gi < gj => Least(MembersOf(a, gi)) < Least(MembersOf(a, gj))

RECURSIVE SumOccurrences(_)
SumOccurrences(G) ==
    IF G = <<>> THEN 0 ELSE Head(G).occurrences + SumOccurrences(Tail(G))

\* C23: the result of the grouper is a partition of its input: every input
\* review is a member of exactly one group, the occurrences add up to the
\* number of input reviews, the members of a group are in input order, and
\* group_id runs over 1..g in the order the groups were created.
C23_Partition ==
    pc = "dedupe_returned" =>
        /\ \E a \in [1..Len(df) -> 1..Len(groups)] : IsPartition(a)
        /\ Len(grouped) = Len(groups)
        /\ SumOccurrences(grouped) = Len(df)
        /\ \A k \in 1..Len(grouped) :
               /\ grouped[k].group_id = k
               /\ grouped[k].raw_rows = groups[k].rows
               /\ grouped[k].occurrences = Len(groups[k].rows)

\* four reviews, two groups of two whose members alternate in the input
C23_Witness ==
    /\ pc = "dedupe_returned"
    /\ Len(df) = 4
    /\ Len(groups) = 2
    /\ df[1] # df[2]
    /\ groups[1].rows = <<df[1], df[3]>>
    /\ groups[2].rows = <<df[2], df[4]>>
    /\ grouped[2].group_id = 2
    /\ grouped[2].occurrences = 2

\* the reviews handled so far whose normalized comment is empty
EmptyHandled == {i \in 1..Len(df) : i < idx /\ df[i].norm_comment = <<>>}

\* the groups that hold a review whose normalized comment is empty
EmptyGroups ==
    {gi \in 1..Len(groups) :
        \E i \in 1..Len(groups[gi].rows) : groups[gi].rows[i].norm_comment = <<>>}

\* C24: a review whose normalized comment is empty opens a group of its own,
\* and a group with an empty representative gets no other member: k such
\* reviews give k groups of one member each.
C24_EmptySingletons ==
    Grouping =>
        /\ Cardinality(EmptyGroups) = Cardinality(EmptyHandled)
        /\ \A gi \in 1..Len(groups) :
               (gi \in EmptyGroups \/ reps[gi] = <<>>) =>
                   /\ Len(groups[gi].rows) = 1
                   /\ groups[gi].rows[1].norm_comment = <<>>
                   /\ reps[gi] = <<>>

\* two reviews without text, with a review with text between them, in three
\* groups
C24_Witness ==
    /\ pc = "dedupe_returned"
    /\ Len(df) = 4
    /\ df[1].norm_comment = <<>>
    /\ df[2].norm_comment # <<>>
    /\ df[3].norm_comment = <<>>
    /\ Len(groups) = 3
    /\ groups[1].rows = <<df[1]>>
    /\ groups[3].rows = <<df[3]>>
    /\ groups[2].rows = <<df[2], df[4]>>

\* C25: the representative_comment of every group of the output is the
\* comment of the member that is the comparison anchor at the end of the pass:
\* its normalization is the final representative of the group.
C25_RepresentativeIsAnchor ==
    pc = "dedupe_returned" =>
        \A k \in 1..Len(grouped) :
            normalize_text(Str(grouped[k].representative_comment)) = reps[k]
(***************************************************************************)
(* Claims about the first-level summarization                              *)
(***************************************************************************)
\* a step of the loop of lines 107-136
ChunkStep == s_pc = "chunks" /\ ci <= Len(comment_chunks) /\ ci' = ci + 1

\* exactly one summarizer call is made in the step, on the chunk, with the
\* length arguments of the claim
OneCallOnChunk(chunk) ==
    /\ Len(summarizer_calls') = Len(summarizer_calls) + 1
    /\ SubSeq(summarizer_calls', 1, Len(summarizer_calls)) = summarizer_calls
    /\ LET call == summarizer_calls'[Len(summarizer_calls')]
           third == Len(chunk) \div 3
           max_length == IF 150 <= third THEN 150 ELSE third
           inner == IF 20 <= max_length - 5 THEN 20 ELSE max_length - 5
       IN  /\ call.level = 1
           /\ call.input = chunk
           /\ call.max_length = max_length
           /\ call.min_length = (IF 10 >= inner THEN 10 ELSE inner)

NoCall == summarizer_calls' = summarizer_calls

\* C20 as stated: a non-empty chunk shorter than 1000 characters is appended
\* as it is to the chunk outputs without a summarizer call; any other non-empty
\* chunk causes exactly one summarizer call on it with max_length =
\* min(150, length // 3) and min_length = max(10, min(20, max_length - 5)).
C20_ChunkHandlingVerbatim ==
    [][(ChunkStep /\ comment_chunks[ci] # <<>>) =>
          IF Len(comment_chunks[ci]) < 1000
          THEN /\ initial_summaries' = Append(initial_summaries, comment_chunks[ci])
               /\ NoCall
          ELSE OneCallOnChunk(comment_chunks[ci])]_vars

\* C20 amended: a chunk of whitespace only is skipped (no output, no call); a
\* chunk shorter than 1000 characters is appended to the chunk outputs
\* stripped of its leading and trailing whitespace, without a summarizer call;
\* any other chunk causes exactly one summarizer call on it with the length
\* arguments above.
C20_ChunkHandlingStripped ==
    [][ChunkStep =>
          IF IsBlank(comment_chunks[ci])
          THEN /\ initial_summaries' = initial_summaries
               /\ NoCall
          ELSE IF Len(comment_chunks[ci]) < 1000
          THEN /\ initial_summaries' = Append(initial_summaries, Strip(comment_chunks[ci]))
               /\ NoCall
          ELSE OneCallOnChunk(comment_chunks[ci])]_vars

\* a chunk of 3500 characters was summarized by one call and a chunk of one
\* space was skipped
C20_Witness ==
    /\ s_pc = "chunks"
    /\ ci = 3
    /\ Len(comment_chunks) = 2
    /\ Len(comment_chunks[1]) = 3500
    /\ comment_chunks[2] = <<" ">>
    /\ Len(summarizer_calls) = 1
    /\ summarizer_calls[1].input = comment_chunks[1]
    /\ summarizer_calls[1].max_length = 150
    /\ summarizer_calls[1].min_length = 20
    /\ summarizer_calls[1].ok
    /\ Len(initial_summaries) = 1
(***************************************************************************)
(* Claims about the two summarization levels                               *)
(***************************************************************************)
\* the chunk goes to the summarizer: not whitespace only, 1000 characters or more
GoesToSummarizer(chunk) ==
    (\E i \in 1..Len(chunk) : chunk[i] \notin Whitespace) /\ Len(chunk) >= 1000

FirstLevelLog == SelectSeq(summarizer_calls, LAMBDA c : c.level = 1)

SecondLevelLog == SelectSeq(summarizer_calls, LAMBDA c : c.level = 2)

\* the call made for chunk k: the calls are logged in chunk order
CallOfChunk(k) ==
    FirstLevelLog[Cardinality({i \in 1..k : GoesToSummarizer(comment_chunks[i])})]

\* what chunk k put into the chunk outputs
OutputOfChunk(k) ==
    IF GoesToSummarizer(comment_chunks[k])
    THEN IF CallOfChunk(k).ok THEN <<CallOfChunk(k).output>> ELSE <<>>
    ELSE IF \A i \in 1..Len(comment_chunks[k]) : comment_chunks[k][i] \in Whitespace
         THEN <<>>
         ELSE <<Strip(comment_chunks[k])>>

RECURSIVE OutputsOfChunks(_)
OutputsOfChunks(k) == IF k = 0 THEN <<>> ELSE OutputsOfChunks(k - 1) \o OutputOfChunk(k)

LocationsOfFrame == {reviews[i].source_location : i \in 1..Len(reviews)}

\* C21: a chunk whose summarizer call fails adds nothing to the chunk outputs;
\* the chunks after it are still handled, in order; the combined text is the
\* outputs of the other chunks joined in order (by single spaces); and the
\* location gets its feature.
C21_FailedChunkSkipped ==
    /\ s_pc \in {"chunks", "summarized"} =>
           /\ Len(FirstLevelLog)
                  = Cardinality({i \in 1..(ci - 1) : GoesToSummarizer(comment_chunks[i])})
           /\ \A k \in 1..(ci - 1) : GoesToSummarizer(comment_chunks[k]) =>
                  CallOfChunk(k).input = comment_chunks[k]
           /\ initial_summaries = OutputsOfChunks(ci - 1)
    /\ s_pc = "summarized" =>
           /\ ci = Len(comment_chunks) + 1
           /\ combined_summaries = JoinSpace(OutputsOfChunks(Len(comment_chunks)))
    /\ s_pc \in {"loop", "done"} =>
           /\ Len(features) + Len(pending) = Cardinality(LocationsOfFrame)
           /\ \A k \in 1..Len(features) : features[k].location \in LocationsOfFrame
           /\ \A k, l \in 1..Len(features) : k # l => features[k].location # features[l].location

\* the call for the first of two chunks failed, the call for the second gave
\* the whole combined text, and the location has its feature
C21_Witness ==
    /\ s_pc = "done"
    /\ Len(features) = 1
    /\ Len(comment_chunks) = 2
    /\ Len(FirstLevelLog) = 2
    /\ ~FirstLevelLog[1].ok
    /\ FirstLevelLog[2].ok
    /\ initial_summaries = <<FirstLevelLog[2].output>>
    /\ combined_summaries = FirstLevelLog[2].output

\* C22: a non-empty combined text shorter than 500 characters is the summary
\* and no second-level call is made; for a combined text of 500 characters or
\* more exactly one second-level call is made, on the combined text, with
\* max_length = min(120, length // 3) and min_length = max(10, min(20,
\* max_length - 5)); the summary is its output, or the combined text if it fails.
C22_SecondLevel ==
    (s_pc = "summarized" /\ combined_summaries # <<>>) =>
        IF Len(combined_summaries) < 500
        THEN summary = combined_summaries /\ SecondLevelLog = <<>>
        ELSE /\ Len(SecondLevelLog) = 1
             /\ summarizer_calls[Len(summarizer_calls)].level = 2
             /\ LET call == SecondLevelLog[1]
                    third == Len(combined_summaries) \div 3
                    max_length == IF 120 <= third THEN 120 ELSE third
                    inner == IF 20 <= max_length - 5 THEN 20 ELSE max_length - 5
                IN  /\ call.input = combined_summaries
                    /\ call.max_length = max_length
                    /\ call.min_length = (IF 10 >= inner THEN 10 ELSE inner)
                    /\ summary = (IF call.ok THEN call.output ELSE combined_summaries)

\* the second-level call on a combined text of 600 characters failed
C22_Witness ==
    /\ s_pc = "summarized"
    /\ Len(combined_summaries) = 600
    /\ Len(SecondLevelLog) = 1
    /\ ~SecondLevelLog[1].ok
    /\ summary = combined_summaries

C27_TalliesAndNeutral ==
    \A k \in 1..Len(features) :
        /\ features[k].positive + features[k].negative + features[k].neutral
               = Cardinality({i \in 1..Len(reviews) :
                                 reviews[i].source_location = features[k].location})
        /\ features[k].overall_sentiment = "neutral"
               <=> /\ features[k].neutral > features[k].positive
                   /\ features[k].neutral > features[k].negative

\* four reviews, the neutral ones as many as the positive ones: not neutral
C27_Witness ==
    \E k \in 1..Len(features) :
        /\ HasCounts(features[k], 2, 0, 2)
        /\ features[k].overall_sentiment = "positive"

(***************************************************************************)
(* Claims about the keyword lists of a review                              *)
(***************************************************************************)
\* the reviews whose pos_kw and neg_kw are both stored
BothStored == 1..Min(Len(pos_kw), Len(neg_kw))

=============================================================================
